---------------------------- MODULE Spec2Model ----------------------------
(***************************************************************************)
(* The database functions of the VIRGO financial dashboard: account       *)
(* mapping, then (further down) monthly aggregation and projection.        *)
(*                                                                         *)
(* Account mapping                                                         *)
(* (supabase/migrations/20250101000006_account_mapping_function.sql):      *)
(* fn_map_account_to_category, fn_map_company_accounts,                    *)
(* fn_get_unmapped_accounts and fn_set_account_mapping over the tables     *)
(* categories and accounts of 20250101000000_initial_schema.sql.           *)
(*                                                                         *)
(* Text values are sequences of one-character strings, so that LOWER, =    *)
(* and LIKE are computed character by character as PostgreSQL does.        *)
(* UUIDs are opaque strings; NULL is the SQL null.                         *)
(*                                                                         *)
(* A SELECT without ORDER BY over categories is modelled as a scan in the  *)
(* position order of the sequence that models the table (the heap order of *)
(* a small table that is not rewritten between the calls); that order is   *)
(* what "catalog order" means below.  source_examples is taken to be a     *)
(* non-null array (the column default is the empty array).                 *)
(***************************************************************************)
EXTENDS Integers, Sequences, FiniteSets, TLC

VARIABLES
  categories,   \* table categories: sequence of rows, in scan order
  accounts,     \* table accounts: account id -> row
  last,         \* the last call: operation, arguments, outcome, mappings before it
  resolved,     \* followed account id -> the ids fn_map_account_to_category returned for it
  raw_transactions,   \* table raw_transactions: set of rows
  monthly_pl,         \* table monthly_pl: set of rows
  monthly_cash_flow,  \* table monthly_cash_flow: set of rows
  projections_12m,    \* table projections_12m: set of rows
  now,                \* the clock NOW() and CURRENT_DATE read
  invocations,        \* calls in progress: invocation -> its position and local variables
  generates           \* <<table, company, period_start>> -> successful generates so far

\* The transactions, the derived tables, the clock and the calls in progress.
ledger == <<raw_transactions, monthly_pl, monthly_cash_flow, projections_12m, now,
            invocations, generates>>

vars == <<categories, accounts, last, resolved, raw_transactions, monthly_pl,
          monthly_cash_flow, projections_12m, now, invocations, generates>>

NULL == "NULL"

---------------------------------------------------------------------------
(* Text: LOWER, comparison, LIKE                                           *)

UpperCase == <<"A","B","C","D","E","F","G","H","I","J","K","L","M",
               "N","O","P","Q","R","S","T","U","V","W","X","Y","Z">>
LowerCase == <<"a","b","c","d","e","f","g","h","i","j","k","l","m",
               "n","o","p","q","r","s","t","u","v","w","x","y","z">>

\* The lower-case letter of each upper-case letter.
UpperToLower ==
  [c \in {UpperCase[i] : i \in DOMAIN UpperCase} |->
     LowerCase[CHOOSE i \in DOMAIN UpperCase : UpperCase[i] = c]]

\* LOWER of one character: an upper-case letter becomes its lower-case letter,
\* every other character is kept.
LowerChar(c) == IF c \in DOMAIN UpperToLower THEN UpperToLower[c] ELSE c

\* LOWER(text)
LOWER(s) == [i \in DOMAIN s |-> LowerChar(s[i])]

\* text LIKE pattern, with PostgreSQL's default escape character: % matches any
\* run of characters, _ any one character, \x the character x itself.
RECURSIVE LIKE(_, _)
LIKE(t, p) ==
  IF p = <<>> THEN t = <<>>
  ELSE IF p[1] = "\\" THEN
    /\ Len(p) >= 2
    /\ t # <<>>
    /\ t[1] = p[2]
    /\ LIKE(Tail(t), SubSeq(p, 3, Len(p)))
  ELSE IF p[1] = "%" THEN
    \/ LIKE(t, Tail(p))
    \/ t # <<>> /\ LIKE(Tail(t), p)
  ELSE IF p[1] = "_" THEN
    t # <<>> /\ LIKE(Tail(t), Tail(p))
  ELSE
    t # <<>> /\ t[1] = p[1] /\ LIKE(Tail(t), Tail(p))

\* '%' || x || '%'
Contains(x) == <<"%">> \o x \o <<"%">>

---------------------------------------------------------------------------
(* fn_map_account_to_category: the computation of v_best_category_id        *)

ExactScore == 100
ContainsExampleScore == 80
ContainedInExampleScore == 70
FallbackBelow == 50

GREATEST(a, b) == IF a >= b THEN a ELSE b

\* Lines 38-46: the FOREACH over one category's examples in the exact pass.
ExactInCategory(v_account_name, examples) ==
  \E i \in DOMAIN examples : LOWER(v_account_name) = LOWER(examples[i])

\* Lines 34-49: the exact pass from row i on; the first row with an equal example
\* sets the id and score 100 and ends the scan.
RECURSIVE ExactPass(_, _, _)
ExactPass(cats, v_account_name, i) ==
  IF i > Len(cats) THEN [id |-> NULL, score |-> 0]
  ELSE IF ExactInCategory(v_account_name, cats[i].source_examples)
    THEN [id |-> cats[i].id, score |-> ExactScore]
    ELSE ExactPass(cats, v_account_name, i + 1)

\* Lines 61-69: what one example contributes to v_match_score.
ExampleScore(v_account_name, v_example) ==
  LET containsExample ==
        LIKE(LOWER(v_account_name), Contains(LOWER(v_example)))
      containedInExample ==
        LIKE(LOWER(v_example), Contains(LOWER(v_account_name)))
  IN IF containsExample THEN ContainsExampleScore
     ELSE IF containedInExample THEN ContainedInExampleScore
     ELSE 0

\* Lines 57-70: v_match_score of one category, the greatest contribution of its
\* examples (GREATEST starting from 0).
MatchScore(v_account_name, examples) ==
  LET scores == {ExampleScore(v_account_name, examples[j]) : j \in DOMAIN examples}
  IN CHOOSE m \in scores \cup {0} : \A n \in scores : GREATEST(m, n) = m

\* Lines 72-76: a category replaces the best one only with a strictly higher score.
KeepBest(best, id, v_match_score) ==
  IF v_match_score > best.score
    THEN [id |-> id, score |-> v_match_score]
    ELSE best

\* Lines 53-77: the fuzzy pass from row i on.
RECURSIVE FuzzyPass(_, _, _, _)
FuzzyPass(cats, v_account_name, i, best) ==
  IF i > Len(cats) THEN best
  ELSE FuzzyPass(cats, v_account_name, i + 1,
                 KeepBest(best, cats[i].id,
                          MatchScore(v_account_name, cats[i].source_examples)))

\* Lines 83-126: the CASE over v_account_type.
FallbackCanonicalType(v_account_type) ==
  CASE v_account_type \in {"Income", "Other Income"} -> "revenue"
    [] v_account_type \in {"Cost of Goods Sold"} -> "cogs"
    [] v_account_type \in {"Expense", "Other Expense"} -> "opex"
    [] v_account_type \in {"Bank", "Other Current Asset", "Fixed Asset",
                           "Other Asset", "Accounts Receivable"} -> "asset"
    [] v_account_type \in {"Accounts Payable", "Credit Card",
                           "Other Current Liability", "Long Term Liability"} -> "liability"
    [] v_account_type \in {"Equity"} -> "equity"
    [] OTHER -> "opex"

\* SELECT id INTO ... FROM categories WHERE canonical_type = ct LIMIT 1:
\* the first row of that type, NULL when there is none.
FirstOfType(cats, ct) ==
  IF \E i \in DOMAIN cats : cats[i].canonical_type = ct
    THEN cats[CHOOSE i \in DOMAIN cats :
                /\ cats[i].canonical_type = ct
                /\ \A j \in 1..(i - 1) : cats[j].canonical_type # ct].id
    ELSE NULL

\* NameMatch without the exact pass of lines 33-49.
NameMatch_NoExactPass(cats, v_account_name) ==
  FuzzyPass(cats, v_account_name, 1, [id |-> NULL, score |-> 0])

\* Lines 33-78: the best category by name and its score.
NameMatch(cats, v_account_name) ==
  LET exact == ExactPass(cats, v_account_name, 1)
  IN IF exact.score < ExactScore
       THEN FuzzyPass(cats, v_account_name, 1, exact)
       ELSE exact

\* Lines 33-127: v_best_category_id as it stands before the UPDATE.
BestCategory(cats, v_account_name, v_account_type) ==
  LET best == NameMatch(cats, v_account_name)
  IN IF best.score < FallbackBelow
       THEN FirstOfType(cats, FallbackCanonicalType(v_account_type))
       ELSE best.id

---------------------------------------------------------------------------
(* Data the calls run on                                                   *)

CanonicalTypes == {"revenue", "cogs", "opex", "asset", "liability", "equity"}

Category(id, name, ct, examples) ==
  [id |-> id, name |-> name, canonical_type |-> ct, source_examples |-> examples]

\* Small catalogs.  Ids are random UUIDs, so the order of the ids is not the
\* order of the rows.
CatalogEmpty == <<>>

CatalogTwo ==
  << Category("k2", "Operating Expenses", "opex", << <<"a","b">> >>),
     Category("k1", "Revenue", "revenue", << <<"a">>, <<"B">> >>) >>

CatalogDup ==
  << Category("k3", "Miscellaneous", "opex", <<>>),
     Category("k1", "Rent", "opex", << <<"a","a","b">> >>),
     Category("k2", "Sales", "revenue", << <<"a">> >>) >>

CatalogMeta ==
  << Category("k1", "Assets", "asset", << <<"a","_">> >>),
     Category("k2", "Operating Expenses", "opex", << <<"b">>, <<"%">> >>),
     Category("k3", "Equity", "equity", << <<"\\","a">> >>) >>

CatalogBlank ==
  << Category("k1", "Liabilities", "liability", << <<"c","c">>, <<>> >>),
     Category("k2", "Cost of Goods Sold", "cogs", << <<"b">> >>) >>

CatalogSix ==
  << Category("k4", "Revenue", "revenue", << <<"a">> >>),
     Category("k2", "Cost of Goods Sold", "cogs", << <<"b">>, <<"A","B">> >>),
     Category("k6", "Operating Expenses", "opex", << <<"b","a">> >>),
     Category("k1", "Assets", "asset", << <<"a","a">>, <<"b","a","b">> >>),
     Category("k5", "Liabilities", "liability", << <<"a","b","a">> >>),
     Category("k3", "Equity", "equity", << <<"b","b">> >>) >>

\* The catalog 20250101000002_seed_categories.sql inserts, in the order of its
\* VALUES list.
SeedCatalog ==
  <<
  [ id |-> "k_revenue", name |-> "Revenue", canonical_type |-> "revenue",
    source_examples |-> <<
       <<"I","n","c","o","m","e">>,  \* Income
       <<"S","a","l","e","s">>,  \* Sales
       <<"S","e","r","v","i","c","e"," ","R","e","v","e","n","u","e">>,  \* Service Revenue
       <<"P","r","o","d","u","c","t"," ","R","e","v","e","n","u","e">>,  \* Product Revenue
       <<"C","o","n","s","u","l","t","i","n","g"," ","R","e","v","e","n","u","e">>,  \* Consulting Revenue
       <<"S","u","b","s","c","r","i","p","t","i","o","n"," ","R","e","v","e","n","u","e">>,  \* Subscription Revenue
       <<"O","t","h","e","r"," ","I","n","c","o","m","e">>,  \* Other Income
       <<"S","a","l","e","s"," ","o","f"," ","P","r","o","d","u","c","t"," ","I","n","c","o","m","e">>,  \* Sales of Product Income
       <<"S","e","r","v","i","c","e","/","F","e","e"," ","I","n","c","o","m","e">>,  \* Service/Fee Income
       <<"U","n","a","p","p","l","i","e","d"," ","C","a","s","h"," ","P","a","y","m","e","n","t"," ","I","n","c","o","m","e">>  \* Unapplied Cash Payment Income
    >> ],
  [ id |-> "k_cogs", name |-> "Cost of Goods Sold", canonical_type |-> "cogs",
    source_examples |-> <<
       <<"C","O","G","S">>,  \* COGS
       <<"C","o","s","t"," ","o","f"," ","S","a","l","e","s">>,  \* Cost of Sales
       <<"D","i","r","e","c","t"," ","C","o","s","t","s">>,  \* Direct Costs
       <<"C","o","s","t"," ","o","f"," ","G","o","o","d","s"," ","S","o","l","d">>,  \* Cost of Goods Sold
       <<"J","o","b"," ","E","x","p","e","n","s","e","s">>,  \* Job Expenses
       <<"J","o","b"," ","M","a","t","e","r","i","a","l","s">>,  \* Job Materials
       <<"S","u","b","c","o","n","t","r","a","c","t","o","r","s">>,  \* Subcontractors
       <<"S","u","p","p","l","i","e","s"," ","&"," ","M","a","t","e","r","i","a","l","s"," ","-"," ","C","O","G","S">>,  \* Supplies & Materials - COGS
       <<"D","i","r","e","c","t"," ","L","a","b","o","r">>,  \* Direct Labor
       <<"F","r","e","i","g","h","t"," ","&"," ","D","e","l","i","v","e","r","y"," ","-"," ","C","O","G","S">>  \* Freight & Delivery - COGS
    >> ],
  [ id |-> "k_opex", name |-> "Operating Expenses", canonical_type |-> "opex",
    source_examples |-> <<
       <<"R","e","n","t">>,  \* Rent
       <<"S","a","l","a","r","i","e","s">>,  \* Salaries
       <<"W","a","g","e","s">>,  \* Wages
       <<"M","a","r","k","e","t","i","n","g">>,  \* Marketing
       <<"A","d","v","e","r","t","i","s","i","n","g">>,  \* Advertising
       <<"U","t","i","l","i","t","i","e","s">>,  \* Utilities
       <<"O","f","f","i","c","e"," ","S","u","p","p","l","i","e","s">>,  \* Office Supplies
       <<"I","n","s","u","r","a","n","c","e">>,  \* Insurance
       <<"P","r","o","f","e","s","s","i","o","n","a","l"," ","F","e","e","s">>,  \* Professional Fees
       <<"L","e","g","a","l"," ","&"," ","P","r","o","f","e","s","s","i","o","n","a","l"," ","F","e","e","s">>,  \* Legal & Professional Fees
       <<"A","c","c","o","u","n","t","i","n","g">>,  \* Accounting
       <<"B","a","n","k"," ","C","h","a","r","g","e","s">>,  \* Bank Charges
       <<"D","e","p","r","e","c","i","a","t","i","o","n">>,  \* Depreciation
       <<"M","e","a","l","s"," ","&"," ","E","n","t","e","r","t","a","i","n","m","e","n","t">>,  \* Meals & Entertainment
       <<"T","r","a","v","e","l">>,  \* Travel
       <<"T","e","l","e","p","h","o","n","e">>,  \* Telephone
       <<"I","n","t","e","r","n","e","t">>,  \* Internet
       <<"S","o","f","t","w","a","r","e">>,  \* Software
       <<"S","u","b","s","c","r","i","p","t","i","o","n","s">>,  \* Subscriptions
       <<"R","e","p","a","i","r","s"," ","&"," ","M","a","i","n","t","e","n","a","n","c","e">>,  \* Repairs & Maintenance
       <<"T","a","x","e","s"," ","&"," ","L","i","c","e","n","s","e","s">>,  \* Taxes & Licenses
       <<"P","a","y","r","o","l","l"," ","E","x","p","e","n","s","e","s">>,  \* Payroll Expenses
       <<"E","m","p","l","o","y","e","e"," ","B","e","n","e","f","i","t","s">>,  \* Employee Benefits
       <<"O","f","f","i","c","e"," ","E","x","p","e","n","s","e","s">>,  \* Office Expenses
       <<"M","i","s","c","e","l","l","a","n","e","o","u","s">>  \* Miscellaneous
    >> ],
  [ id |-> "k_asset", name |-> "Assets", canonical_type |-> "asset",
    source_examples |-> <<
       <<"C","a","s","h">>,  \* Cash
       <<"B","a","n","k">>,  \* Bank
       <<"C","h","e","c","k","i","n","g">>,  \* Checking
       <<"S","a","v","i","n","g","s">>,  \* Savings
       <<"A","c","c","o","u","n","t","s"," ","R","e","c","e","i","v","a","b","l","e">>,  \* Accounts Receivable
       <<"A","/","R">>,  \* A/R
       <<"I","n","v","e","n","t","o","r","y">>,  \* Inventory
       <<"I","n","v","e","n","t","o","r","y"," ","A","s","s","e","t">>,  \* Inventory Asset
       <<"P","r","e","p","a","i","d"," ","E","x","p","e","n","s","e","s">>,  \* Prepaid Expenses
       <<"F","i","x","e","d"," ","A","s","s","e","t","s">>,  \* Fixed Assets
       <<"E","q","u","i","p","m","e","n","t">>,  \* Equipment
       <<"F","u","r","n","i","t","u","r","e"," ","&"," ","F","i","x","t","u","r","e","s">>,  \* Furniture & Fixtures
       <<"V","e","h","i","c","l","e","s">>,  \* Vehicles
       <<"B","u","i","l","d","i","n","g","s">>,  \* Buildings
       <<"L","a","n","d">>,  \* Land
       <<"A","c","c","u","m","u","l","a","t","e","d"," ","D","e","p","r","e","c","i","a","t","i","o","n">>,  \* Accumulated Depreciation
       <<"O","t","h","e","r"," ","C","u","r","r","e","n","t"," ","A","s","s","e","t","s">>,  \* Other Current Assets
       <<"O","t","h","e","r"," ","A","s","s","e","t","s">>,  \* Other Assets
       <<"U","n","d","e","p","o","s","i","t","e","d"," ","F","u","n","d","s">>  \* Undeposited Funds
    >> ],
  [ id |-> "k_liability", name |-> "Liabilities", canonical_type |-> "liability",
    source_examples |-> <<
       <<"A","c","c","o","u","n","t","s"," ","P","a","y","a","b","l","e">>,  \* Accounts Payable
       <<"A","/","P">>,  \* A/P
       <<"C","r","e","d","i","t"," ","C","a","r","d">>,  \* Credit Card
       <<"C","r","e","d","i","t"," ","C","a","r","d","s">>,  \* Credit Cards
       <<"L","o","a","n","s"," ","P","a","y","a","b","l","e">>,  \* Loans Payable
       <<"N","o","t","e","s"," ","P","a","y","a","b","l","e">>,  \* Notes Payable
       <<"L","i","n","e"," ","o","f"," ","C","r","e","d","i","t">>,  \* Line of Credit
       <<"P","a","y","r","o","l","l"," ","L","i","a","b","i","l","i","t","i","e","s">>,  \* Payroll Liabilities
       <<"S","a","l","e","s"," ","T","a","x"," ","P","a","y","a","b","l","e">>,  \* Sales Tax Payable
       <<"A","c","c","r","u","e","d"," ","E","x","p","e","n","s","e","s">>,  \* Accrued Expenses
       <<"O","t","h","e","r"," ","C","u","r","r","e","n","t"," ","L","i","a","b","i","l","i","t","i","e","s">>,  \* Other Current Liabilities
       <<"L","o","n","g"," ","T","e","r","m"," ","L","i","a","b","i","l","i","t","i","e","s">>,  \* Long Term Liabilities
       <<"M","o","r","t","g","a","g","e"," ","P","a","y","a","b","l","e">>  \* Mortgage Payable
    >> ],
  [ id |-> "k_equity", name |-> "Equity", canonical_type |-> "equity",
    source_examples |-> <<
       <<"O","w","n","e","r"," ","E","q","u","i","t","y">>,  \* Owner Equity
       <<"O","w","n","e","r","s"," ","E","q","u","i","t","y">>,  \* Owners Equity
       <<"R","e","t","a","i","n","e","d"," ","E","a","r","n","i","n","g","s">>,  \* Retained Earnings
       <<"O","p","e","n","i","n","g"," ","B","a","l","a","n","c","e"," ","E","q","u","i","t","y">>,  \* Opening Balance Equity
       <<"C","a","p","i","t","a","l"," ","S","t","o","c","k">>,  \* Capital Stock
       <<"C","o","m","m","o","n"," ","S","t","o","c","k">>,  \* Common Stock
       <<"P","a","i","d","-","I","n"," ","C","a","p","i","t","a","l">>,  \* Paid-In Capital
       <<"D","i","s","t","r","i","b","u","t","i","o","n","s">>,  \* Distributions
       <<"D","i","v","i","d","e","n","d","s"," ","P","a","i","d">>,  \* Dividends Paid
       <<"P","a","r","t","n","e","r"," ","E","q","u","i","t","y">>,  \* Partner Equity
       <<"M","e","m","b","e","r"," ","E","q","u","i","t","y">>  \* Member Equity
    >> ]
  >>

\* Account names tried against the seeded catalog:
\*   sales
\*   SALES TAX PAYABLE
\*   Rent Expense
\*   Bank Charges
\*   Checking Account
\*   Ren
\*   Xyz
\*   (the empty name)
\*   S_les
\*   Qq 100%
SeedNames ==
  { <<"s","a","l","e","s">>,
    <<"S","A","L","E","S"," ","T","A","X"," ","P","A","Y","A","B","L","E">>,
    <<"R","e","n","t"," ","E","x","p","e","n","s","e">>,
    <<"B","a","n","k"," ","C","h","a","r","g","e","s">>,
    <<"C","h","e","c","k","i","n","g"," ","A","c","c","o","u","n","t">>,
    <<"R","e","n">>,
    <<"X","y","z">>,
    <<>>,
    <<"S","_","l","e","s">>,
    <<"Q","q"," ","1","0","0","%">> }

Catalogs == {CatalogEmpty, CatalogTwo, CatalogDup, CatalogMeta, CatalogBlank, CatalogSix}

\* The catalogs of the multi-account specification.
SmallCatalogs == {CatalogEmpty, CatalogTwo}

\* accounts.type values: the sixteen the CASE names, and three it does not.
NamedTypes ==
  {"Income", "Other Income", "Cost of Goods Sold", "Expense", "Other Expense",
   "Bank", "Other Current Asset", "Fixed Asset", "Other Asset", "Accounts Receivable",
   "Accounts Payable", "Credit Card", "Other Current Liability", "Long Term Liability",
   "Equity"}
OtherTypes == {"", "income", "Non-Posting"}
AccountTypes == NamedTypes \cup OtherTypes

\* One type for each branch of the CASE.
BranchTypes ==
  {"Other Income", "Cost of Goods Sold", "Expense", "Bank", "Credit Card", "Equity",
   "Non-Posting"}

Alphabet == {"a", "A", "b", "c", "_", "%", "\\"}

MaxNameLen == 2

\* All texts over Alphabet of length at most n.
Texts(n) == UNION {[1..k -> Alphabet] : k \in 0..n}

\* Name and type of the accounts of the multi-account specification.
AccountKinds ==
  { [name |-> <<"a">>, type |-> "Income"],
    [name |-> <<"b","A">>, type |-> "Expense"],
    [name |-> <<"c">>, type |-> "Bank"],
    [name |-> <<"c">>, type |-> "Non-Posting"] }

Companies == {"c1", "c2"}
NoCompany == "c0"
NoAccount == "a0"
NoCategory == "k0"

\* company_id of the three accounts of the multi-account specification.
CompanyOf == [a \in {"a1", "a2", "a3"} |-> IF a = "a3" THEN "c2" ELSE "c1"]

AccountIds == DOMAIN accounts
CategoryIds == {categories[i].id : i \in DOMAIN categories}

Account(company, name, type) ==
  [company_id |-> company, name |-> name, type |-> type,
   mapping_category_id |-> NULL]

Mappings == [a \in AccountIds |-> accounts[a].mapping_category_id]

\* How many calls per followed account `resolved` counts; more count as this many.
CallsCounted == 2

NotResolved == [ids |-> {}, calls |-> 0]

\* `resolved` after fn_map_account_to_category returned `id` for account a.
Returned(res, a, id) ==
  [b \in DOMAIN res |->
     IF b = a
       THEN [ids |-> res[b].ids \cup {id},
             calls |-> IF res[b].calls < CallsCounted THEN res[b].calls + 1
                                                     ELSE CallsCounted]
       ELSE res[b]]

NoCall ==
  [op |-> "none", account |-> NULL, company |-> NULL, category |-> NULL,
   status |-> "ok", ret |-> NULL, rows |-> <<>>, pre |-> <<>>]

Call(op, account, company, category, status, ret, rows) ==
  [op |-> op, account |-> account, company |-> company, category |-> category,
   status |-> status, ret |-> ret, rows |-> rows, pre |-> Mappings]

---------------------------------------------------------------------------
(* Initial states                                                          *)

\* No transaction, no derived row, no call in progress.
NoLedger ==
  /\ raw_transactions = {}
  /\ monthly_pl = {}
  /\ monthly_cash_flow = {}
  /\ projections_12m = {}
  /\ now = 1
  /\ invocations = <<>>
  /\ generates = <<>>

\* Three accounts in two companies, none mapped yet.
Init ==
  /\ categories \in SmallCatalogs
  /\ \E kind \in [DOMAIN CompanyOf -> AccountKinds] :
       accounts = [a \in DOMAIN CompanyOf |->
                     Account(CompanyOf[a], kind[a].name, kind[a].type)]
  /\ last = NoCall
  /\ NoLedger
  /\ resolved = <<>>

\* One account with any short name, over each small catalog.
InitResolve ==
  /\ categories \in Catalogs
  /\ \E name \in Texts(MaxNameLen), type \in BranchTypes :
       accounts = [a \in {"a1"} |-> Account("c1", name, type)]
  /\ last = NoCall
  /\ NoLedger
  /\ resolved = [a \in {"a1"} |-> NotResolved]

\* One account with a name of SeedNames and any type, over the seeded catalog.
InitSeed ==
  /\ categories = SeedCatalog
  /\ \E name \in SeedNames, type \in AccountTypes :
       accounts = [a \in {"a1"} |-> Account("c1", name, type)]
  /\ last = NoCall
  /\ NoLedger
  /\ resolved = [a \in {"a1"} |-> NotResolved]

\* Two accounts of one company, both followed in `resolved`.
InitTrack ==
  /\ categories \in SmallCatalogs
  /\ \E kind \in [{"a1", "a2"} -> AccountKinds] :
       accounts = [a \in {"a1", "a2"} |-> Account("c1", kind[a].name, kind[a].type)]
  /\ last = NoCall
  /\ NoLedger
  /\ resolved = [a \in {"a1", "a2"} |-> NotResolved]

---------------------------------------------------------------------------
(* The four functions                                                      *)

\* RAISE EXCEPTION 'Account with id % not found' and
\* RAISE EXCEPTION 'Category with id % does not exist': the NotFound failures.
NotFound == {"AccountNotFound", "CategoryNotFound"}

\* MapAccountToCategory with an UPDATE that has no WHERE clause.
MapAccountToCategory_AllRows(cats, accts, p_account_id) ==
  LET v_best_category_id ==
        BestCategory(cats, accts[p_account_id].name, accts[p_account_id].type)
  IN [accounts |-> [a \in DOMAIN accts |->
                      [accts[a] EXCEPT !.mapping_category_id = v_best_category_id]],
      ret |-> v_best_category_id]

\* MapAccountToCategory that keeps the mapping of an account already mapped.
MapAccountToCategory_KeepMapped(cats, accts, p_account_id) ==
  IF accts[p_account_id].mapping_category_id # NULL
    THEN [accounts |-> accts, ret |-> accts[p_account_id].mapping_category_id]
    ELSE LET v_best_category_id ==
               BestCategory(cats, accts[p_account_id].name, accts[p_account_id].type)
         IN [accounts |-> [accts EXCEPT ![p_account_id].mapping_category_id =
                                          v_best_category_id],
             ret |-> v_best_category_id]

\* fn_map_account_to_category on an account that exists: the UPDATE of the
\* account's row and the value returned.
MapAccountToCategory(cats, accts, p_account_id) ==
  LET v_best_category_id ==
        BestCategory(cats, accts[p_account_id].name, accts[p_account_id].type)
  IN [accounts |-> [accts EXCEPT ![p_account_id].mapping_category_id =
                                   v_best_category_id],
      ret |-> v_best_category_id]

\* fn_map_account_to_category without the IF NOT FOUND of lines 29-31: no name
\* matches, the type falls to the ELSE branch, the UPDATE finds no row.
fn_map_account_to_category_NoCheck(p_account_id) ==
  IF p_account_id \notin AccountIds
    THEN /\ last' = Call("fn_map_account_to_category", p_account_id, NULL, NULL,
                         "ok", FirstOfType(categories, "opex"), <<>>)
         /\ UNCHANGED <<categories, accounts, resolved, ledger>>
    ELSE LET r == MapAccountToCategory(categories, accounts, p_account_id)
         IN /\ accounts' = r.accounts
            /\ last' = Call("fn_map_account_to_category", p_account_id, NULL, NULL,
                            "ok", r.ret, <<>>)
            /\ resolved' = Returned(resolved, p_account_id, r.ret)
            /\ UNCHANGED <<categories, ledger>>

fn_map_account_to_category(p_account_id) ==
  IF p_account_id \notin AccountIds
    THEN /\ last' = Call("fn_map_account_to_category", p_account_id, NULL, NULL,
                         "AccountNotFound", NULL, <<>>)
         /\ UNCHANGED <<categories, accounts, resolved, ledger>>
    ELSE LET r == MapAccountToCategory(categories, accounts, p_account_id)
         IN /\ accounts' = r.accounts
            /\ last' = Call("fn_map_account_to_category", p_account_id, NULL, NULL,
                            "ok", r.ret, <<>>)
            /\ resolved' = Returned(resolved, p_account_id, r.ret)
            /\ UNCHANGED <<categories, ledger>>

\* All orders in which a scan can return the rows S.
Orders(S) ==
  {o \in [1..Cardinality(S) -> S] : \A i, j \in DOMAIN o : o[i] = o[j] => i = j}

\* Lines 176-187: the rows RETURN QUERY adds for one account, from the join with
\* categories on the id just returned.
ResultRows(cats, v_account_record, id, v_mapped_category_id) ==
  LET hit == {i \in DOMAIN cats : cats[i].id = v_mapped_category_id}
  IN IF hit = {} THEN <<>>
     ELSE << [account_id |-> id,
              account_name |-> v_account_record.name,
              category_id |-> v_mapped_category_id,
              category_name |-> cats[CHOOSE i \in hit : TRUE].name,
              mapping_method |->
                IF v_account_record.mapping_category_id # NULL
                  THEN "already_mapped" ELSE "auto_mapped"] >>

\* MapLoop that resolves only the accounts not mapped yet.
RECURSIVE MapLoop_SkipMapped(_, _, _, _, _, _, _)
MapLoop_SkipMapped(cats, snapshot, order, i, accts, res, rows) ==
  IF i > Len(order) THEN [accounts |-> accts, resolved |-> res, rows |-> rows]
  ELSE IF snapshot[order[i]].mapping_category_id # NULL
    THEN MapLoop_SkipMapped(cats, snapshot, order, i + 1, accts, res,
                            rows \o ResultRows(cats, snapshot[order[i]], order[i],
                                               snapshot[order[i]].mapping_category_id))
  ELSE LET r == MapAccountToCategory(cats, accts, order[i])
       IN MapLoop_SkipMapped(cats, snapshot, order, i + 1, r.accounts,
                             Returned(res, order[i], r.ret),
                             rows \o ResultRows(cats, snapshot[order[i]], order[i], r.ret))

\* Lines 166-188: the loop over the rows the query returned (read, snapshot, at the
\* start of the loop), taken in the order `order`.
RECURSIVE MapLoop(_, _, _, _, _, _, _)
MapLoop(cats, snapshot, order, i, accts, res, rows) ==
  IF i > Len(order) THEN [accounts |-> accts, resolved |-> res, rows |-> rows]
  ELSE LET r == MapAccountToCategory(cats, accts, order[i])
       IN MapLoop(cats, snapshot, order, i + 1, r.accounts,
                  Returned(res, order[i], r.ret),
                  rows \o ResultRows(cats, snapshot[order[i]], order[i], r.ret))

fn_map_company_accounts(p_company_id) ==
  \E order \in Orders({a \in AccountIds : accounts[a].company_id = p_company_id}) :
    LET r == MapLoop(categories, accounts, order, 1, accounts, resolved, <<>>)
    IN /\ accounts' = r.accounts
       /\ last' = Call("fn_map_company_accounts", NULL, p_company_id, NULL,
                       "ok", NULL, r.rows)
       /\ resolved' = r.resolved
       /\ UNCHANGED <<categories, ledger>>

\* ORDER BY a.name, with the characters in byte order.
ByteOrder == <<"%", "A", "\\", "_", "a", "b", "c">>
Rank(c) == CHOOSE i \in DOMAIN ByteOrder : ByteOrder[i] = c

RECURSIVE TextLeq(_, _)
TextLeq(x, y) ==
  IF x = <<>> THEN TRUE
  ELSE IF y = <<>> THEN FALSE
  ELSE IF x[1] = y[1] THEN TextLeq(Tail(x), Tail(y))
  ELSE Rank(x[1]) < Rank(y[1])

\* Unmapped without the company_id condition.
Unmapped_AllCompanies(accts, p_company_id) ==
  {a \in DOMAIN accts : accts[a].mapping_category_id = NULL}

\* Lines 209-217: the accounts the query selects.
Unmapped(accts, p_company_id) ==
  {a \in DOMAIN accts : /\ accts[a].company_id = p_company_id
                        /\ accts[a].mapping_category_id = NULL}

fn_get_unmapped_accounts(p_company_id) ==
  \E order \in Orders(Unmapped(accounts, p_company_id)) :
    /\ \A i \in 1..(Len(order) - 1) :
         TextLeq(accounts[order[i]].name, accounts[order[i + 1]].name)
    /\ last' = Call("fn_get_unmapped_accounts", NULL, p_company_id, NULL, "ok", NULL,
                    [i \in DOMAIN order |->
                       [account_id |-> order[i],
                        account_name |-> accounts[order[i]].name,
                        account_type |-> accounts[order[i]].type]])
    /\ UNCHANGED <<categories, accounts, resolved, ledger>>

\* SetAccountMapping without the IF NOT FOUND of lines 246-248.
SetAccountMapping_NoFoundCheck(cats, accts, p_account_id, p_category_id) ==
  IF ~ \E i \in DOMAIN cats : cats[i].id = p_category_id
    THEN [accounts |-> accts, status |-> "CategoryNotFound", ret |-> NULL]
  ELSE IF p_account_id \notin DOMAIN accts
    THEN [accounts |-> accts, status |-> "ok", ret |-> "TRUE"]
  ELSE [accounts |-> [accts EXCEPT ![p_account_id].mapping_category_id = p_category_id],
        status |-> "ok", ret |-> "TRUE"]

\* SetAccountMapping without the category check of lines 234-239 (and without a
\* foreign key on mapping_category_id).
SetAccountMapping_NoCategoryCheck(cats, accts, p_account_id, p_category_id) ==
  IF p_account_id \notin DOMAIN accts
    THEN [accounts |-> accts, status |-> "AccountNotFound", ret |-> NULL]
  ELSE [accounts |-> [accts EXCEPT ![p_account_id].mapping_category_id = p_category_id],
        status |-> "ok", ret |-> "TRUE"]

\* fn_set_account_mapping: the category check, the UPDATE and the check of FOUND.
SetAccountMapping(cats, accts, p_account_id, p_category_id) ==
  IF ~ \E i \in DOMAIN cats : cats[i].id = p_category_id
    THEN [accounts |-> accts, status |-> "CategoryNotFound", ret |-> NULL]
  ELSE IF p_account_id \notin DOMAIN accts
    THEN [accounts |-> accts, status |-> "AccountNotFound", ret |-> NULL]
  ELSE [accounts |-> [accts EXCEPT ![p_account_id].mapping_category_id = p_category_id],
        status |-> "ok", ret |-> "TRUE"]

\* fn_set_account_mapping that also deletes the P&L aggregates of the account's
\* company, as an invalidation would.
fn_set_account_mapping_DropAggregates(p_account_id, p_category_id) ==
  LET r == SetAccountMapping(categories, accounts, p_account_id, p_category_id)
  IN /\ accounts' = r.accounts
     /\ last' = Call("fn_set_account_mapping", p_account_id, NULL, p_category_id,
                     r.status, r.ret, <<>>)
     /\ monthly_pl' = IF r.status = "ok"
                        THEN {row \in monthly_pl :
                                row.company_id # accounts[p_account_id].company_id}
                        ELSE monthly_pl
     /\ UNCHANGED <<categories, resolved, raw_transactions, monthly_cash_flow,
                    projections_12m, now, invocations, generates>>

fn_set_account_mapping(p_account_id, p_category_id) ==
  LET r == SetAccountMapping(categories, accounts, p_account_id, p_category_id)
  IN /\ accounts' = r.accounts
     /\ last' = Call("fn_set_account_mapping", p_account_id, NULL, p_category_id,
                     r.status, r.ret, <<>>)
     /\ UNCHANGED <<categories, resolved, ledger>>

---------------------------------------------------------------------------
(* Specifications                                                          *)

Next ==
  \/ \E p_account_id \in AccountIds \cup {NoAccount} :
       fn_map_account_to_category(p_account_id)
  \/ \E p_company_id \in Companies \cup {NoCompany} :
       fn_map_company_accounts(p_company_id)
  \/ \E p_company_id \in Companies \cup {NoCompany} :
       fn_get_unmapped_accounts(p_company_id)
  \/ \E p_account_id \in AccountIds \cup {NoAccount},
        p_category_id \in CategoryIds \cup {NoCategory, NULL} :
       fn_set_account_mapping(p_account_id, p_category_id)

Spec == Init /\ [][Next]_vars

NextResolve ==
  \E p_account_id \in AccountIds \cup {NoAccount} :
    fn_map_account_to_category(p_account_id)

SpecResolve == InitResolve /\ [][NextResolve]_vars

SpecSeed == InitSeed /\ [][NextResolve]_vars

SpecTrack == InitTrack /\ [][Next]_vars

---------------------------------------------------------------------------
(* Vocabulary of the properties                                            *)

ResolveOk == last.op = "fn_map_account_to_category" /\ last.status = "ok"

\* x occurs in y as a run of consecutive characters.
IsSubstring(x, y) ==
  \E i \in 0..(Len(y) - Len(x)) : SubSeq(y, i + 1, i + Len(x)) = x

\* The catalog rows with an example equal to the name, case-insensitively.
ExactRows(name) ==
  {i \in DOMAIN categories :
     \E j \in DOMAIN categories[i].source_examples :
       LOWER(name) = LOWER(categories[i].source_examples[j])}

\* The score of catalog row i for the name, by substrings: 80, 70 or 0.
SubstringScore(i, name) ==
  LET ex == categories[i].source_examples
  IN IF \E j \in DOMAIN ex : IsSubstring(LOWER(ex[j]), LOWER(name)) THEN 80
     ELSE IF \E j \in DOMAIN ex : IsSubstring(LOWER(name), LOWER(ex[j])) THEN 70
     ELSE 0

Least(S) == CHOOSE x \in S : \A y \in S : x <= y

\* The rows with the highest substring score.
BestSubstringRows(name) ==
  {i \in DOMAIN categories :
     \A k \in DOMAIN categories : SubstringScore(k, name) <= SubstringScore(i, name)}

\* The table of declared types.
TableCanonicalType(type) ==
  IF type \in {"Income", "Other Income"} THEN "revenue"
  ELSE IF type = "Cost of Goods Sold" THEN "cogs"
  ELSE IF type \in {"Expense", "Other Expense"} THEN "opex"
  ELSE IF type \in {"Bank", "Other Current Asset", "Fixed Asset", "Other Asset",
                    "Accounts Receivable"} THEN "asset"
  ELSE IF type \in {"Accounts Payable", "Credit Card", "Other Current Liability",
                    "Long Term Liability"} THEN "liability"
  ELSE IF type = "Equity" THEN "equity"
  ELSE "opex"

RowsOfType(ct) == {i \in DOMAIN categories : categories[i].canonical_type = ct}

\* Every account but a has the mapping it had before the last call.
OthersKept(a) ==
  \A b \in AccountIds \ {a} : accounts[b].mapping_category_id = last.pre[b]

AllKept == \A b \in AccountIds : accounts[b].mapping_category_id = last.pre[b]

---------------------------------------------------------------------------
(* C1: an account whose name equals, case-insensitively, an example of    *)
(* some category resolves to the first category in catalog order that has  *)
(* such an example, whatever its type and whatever substring matches       *)
(* other categories have.                                                  *)
C1_ExactMatchWins ==
  ResolveOk =>
    LET name == accounts[last.account].name
    IN ExactRows(name) # {} =>
         last.ret = categories[Least(ExactRows(name))].id

\* An exact match in a later row wins over an earlier row whose example is a
\* substring of the name, for an account whose type points to yet another row.
C1_Witness ==
  /\ ResolveOk
  /\ LET name == accounts[last.account].name
         type == accounts[last.account].type
     IN /\ ExactRows(name) # {}
        /\ \E k \in 1..(Least(ExactRows(name)) - 1) : SubstringScore(k, name) = 80
        /\ Least(ExactRows(name)) \notin RowsOfType(TableCanonicalType(type))
        /\ last.ret = categories[Least(ExactRows(name))].id

(* C2: with no example equal to the name, each category scores the         *)
(* greatest over its examples of 80 (example is a substring of the name),  *)
(* 70 (name is a substring of the example) or 0, case-insensitively; the   *)
(* category with the highest score is returned, the first in catalog order *)
(* among equals.                                                           *)
C2_FuzzyBySubstring ==
  ResolveOk =>
    LET name == accounts[last.account].name
        best == BestSubstringRows(name)
    IN (ExactRows(name) = {} /\ best # {} /\ SubstringScore(Least(best), name) > 0) =>
         last.ret = categories[Least(best)].id

\* The same, for names and examples without the characters %, _ and \.
Plain(text) == \A i \in DOMAIN text : text[i] \notin {"%", "_", "\\"}

C2_FuzzyBySubstringOfPlainText ==
  ResolveOk =>
    LET name == accounts[last.account].name
        best == BestSubstringRows(name)
    IN (/\ Plain(name)
        /\ \A i \in DOMAIN categories :
             \A j \in DOMAIN categories[i].source_examples :
               Plain(categories[i].source_examples[j])
        /\ ExactRows(name) = {} /\ best # {}
        /\ SubstringScore(Least(best), name) > 0) =>
         last.ret = categories[Least(best)].id

(* C3: over the seeded catalog the type is consulted exactly when the name *)
(* has no exact and no substring match in either direction, and the result *)
(* is then the category of the canonical type the table gives for the      *)
(* type (opex for a type the table does not name); otherwise the result is *)
(* the category the name selects.                                          *)
C3_TypeConsultedIffNoNameMatch ==
  ResolveOk =>
    LET name == accounts[last.account].name
        type == accounts[last.account].type
        best == BestSubstringRows(name)
        noMatch == /\ ExactRows(name) = {}
                   /\ \A i \in DOMAIN categories : SubstringScore(i, name) = 0
    IN /\ noMatch =>
            /\ Cardinality(RowsOfType(TableCanonicalType(type))) = 1
            /\ \A i \in RowsOfType(TableCanonicalType(type)) :
                 last.ret = categories[i].id
       /\ ~noMatch =>
            last.ret = IF ExactRows(name) # {}
                         THEN categories[Least(ExactRows(name))].id
                         ELSE categories[Least(best)].id

\* The seeded catalog, for names without the characters %, _ and \.
C3_TypeConsultedIffNoPlainNameMatch ==
  Plain(accounts["a1"].name) => C3_TypeConsultedIffNoNameMatch

(* C4: a call for an existing account returns the id of a category of the  *)
(* catalog, stores it as the account's mapping_category_id and changes no  *)
(* other account's mapping.                                                *)
C4_ReturnsExistingCategory ==
  ResolveOk =>
    /\ last.ret \in CategoryIds
    /\ accounts[last.account].mapping_category_id = last.ret
    /\ OthersKept(last.account)

\* C4 as amended: the id of a category of the catalog, or NULL, and NULL only
\* when the catalog has no category of the canonical type the table gives for the
\* account's type; stored on the account, no other account changed.
C4_ReturnsCategoryOrNull ==
  ResolveOk =>
    /\ last.ret \in CategoryIds \cup {NULL}
    /\ last.ret = NULL =>
         RowsOfType(TableCanonicalType(accounts[last.account].type)) = {}
    /\ accounts[last.account].mapping_category_id = last.ret
    /\ OthersKept(last.account)

\* A category is returned and replaces another mapping, while another account
\* keeps its own.
C4_Witness ==
  /\ ResolveOk
  /\ last.ret \in CategoryIds
  /\ last.pre[last.account] \notin {NULL, last.ret}
  /\ \E b \in AccountIds \ {last.account} :
       accounts[b].mapping_category_id \notin {NULL, last.ret}

(* C5: a call with an account id that does not exist fails with NotFound   *)
(* and leaves every account's mapping_category_id unchanged.               *)
C5_MissingAccountNotFound ==
  (last.op = "fn_map_account_to_category" /\ last.account \notin AccountIds) =>
    /\ last.status \in NotFound
    /\ AllKept

C5_Witness ==
  /\ last.op = "fn_map_account_to_category"
  /\ last.account \notin AccountIds
  /\ last.status = "AccountNotFound"
  /\ \E b \in AccountIds : accounts[b].mapping_category_id # NULL

(* C6: over an unchanged catalog every call for one account returns the    *)
(* same category, whatever the account's mapping is at the call and        *)
(* whatever was resolved or overridden in between; a second call right     *)
(* after a first changes nothing.                                          *)
C6_SameCategoryEveryCall ==
  /\ [](\A a \in DOMAIN resolved : Cardinality(resolved[a].ids) <= 1)
  /\ [][(/\ ResolveOk
         /\ last'.op = "fn_map_account_to_category"
         /\ last'.account = last.account) =>
          /\ last'.status = "ok"
          /\ last'.ret = last.ret
          /\ accounts' = accounts]_vars

\* The account was resolved before, then overridden with another category, and the
\* call returns what the calls before returned; the other account was resolved too.
C6_Witness ==
  /\ ResolveOk
  /\ resolved[last.account].calls >= 2
  /\ resolved[last.account].ids = {last.ret}
  /\ last.pre[last.account] \notin {NULL, last.ret}
  /\ \E b \in DOMAIN resolved \ {last.account} : resolved[b].calls >= 1

(* C7: after fn_map_company_accounts(c) every account of c has the mapping *)
(* the resolver yields for its name and type, also one that was mapped or  *)
(* overridden before; the accounts of other companies are unchanged.       *)
C7_BatchResolvesAll ==
  last.op = "fn_map_company_accounts" =>
    \A a \in AccountIds :
      IF accounts[a].company_id = last.company
        THEN accounts[a].mapping_category_id =
               BestCategory(categories, accounts[a].name, accounts[a].type)
        ELSE accounts[a].mapping_category_id = last.pre[a]

\* An override of one account of c is overwritten, a second account of c is mapped
\* for the first time, and a mapped account of another company is kept.
C7_Witness ==
  /\ last.op = "fn_map_company_accounts"
  /\ \E a \in AccountIds :
       /\ accounts[a].company_id = last.company
       /\ last.pre[a] \notin {NULL, accounts[a].mapping_category_id}
  /\ \E a \in AccountIds :
       /\ accounts[a].company_id = last.company
       /\ last.pre[a] = NULL
       /\ accounts[a].mapping_category_id # NULL
  /\ \E b \in AccountIds :
       /\ accounts[b].company_id # last.company
       /\ accounts[b].mapping_category_id # NULL

(* C8: fn_map_company_accounts(c) returns exactly one row per account of   *)
(* c, with the resolved category id and that category's name, and with     *)
(* mapping_method already_mapped exactly when the account's                *)
(* mapping_category_id was not NULL before the call.                       *)
C8_OneRowPerAccount ==
  last.op = "fn_map_company_accounts" =>
    /\ \A a \in AccountIds :
         accounts[a].company_id = last.company =>
           Cardinality({i \in DOMAIN last.rows : last.rows[i].account_id = a}) = 1
    /\ \A i \in DOMAIN last.rows :
         LET row == last.rows[i]
         IN /\ row.account_id \in AccountIds
            /\ accounts[row.account_id].company_id = last.company
            /\ row.category_id = accounts[row.account_id].mapping_category_id
            /\ \E k \in DOMAIN categories :
                 /\ categories[k].id = row.category_id
                 /\ categories[k].name = row.category_name
            /\ row.mapping_method =
                 IF last.pre[row.account_id] # NULL THEN "already_mapped"
                                                    ELSE "auto_mapped"

\* The same with one row per account of c that resolves to a category, and no row
\* for an account that resolves to NULL.
C8_OneRowPerResolvedAccount ==
  last.op = "fn_map_company_accounts" =>
    /\ \A a \in AccountIds :
         accounts[a].company_id = last.company =>
           Cardinality({i \in DOMAIN last.rows : last.rows[i].account_id = a}) =
             IF accounts[a].mapping_category_id = NULL THEN 0 ELSE 1
    /\ \A i \in DOMAIN last.rows :
         LET row == last.rows[i]
         IN /\ row.account_id \in AccountIds
            /\ accounts[row.account_id].company_id = last.company
            /\ row.category_id = accounts[row.account_id].mapping_category_id
            /\ \E k \in DOMAIN categories :
                 /\ categories[k].id = row.category_id
                 /\ categories[k].name = row.category_name
            /\ row.mapping_method =
                 IF last.pre[row.account_id] # NULL THEN "already_mapped"
                                                    ELSE "auto_mapped"

(* C9: fn_set_account_mapping(a, k) succeeds exactly when account a and    *)
(* category k exist; then a's mapping_category_id is k and no other        *)
(* account changes; otherwise it fails with NotFound and changes nothing.  *)
C9_SetMapping ==
  last.op = "fn_set_account_mapping" =>
    /\ last.status = "ok" <=>
         (last.account \in AccountIds /\ last.category \in CategoryIds)
    /\ last.status = "ok" =>
         /\ accounts[last.account].mapping_category_id = last.category
         /\ OthersKept(last.account)
    /\ last.status # "ok" =>
         /\ last.status \in NotFound
         /\ AllKept

\* The category is missing, the account exists and keeps the mapping it had.
C9_Witness ==
  /\ last.op = "fn_set_account_mapping"
  /\ last.account \in AccountIds
  /\ last.category \notin CategoryIds
  /\ last.status = "CategoryNotFound"
  /\ accounts[last.account].mapping_category_id # NULL

(* C10: fn_get_unmapped_accounts(c) returns exactly the accounts of c      *)
(* whose mapping_category_id is NULL, each once, and changes no state.     *)
C10_UnmappedOfCompany ==
  last.op = "fn_get_unmapped_accounts" =>
    /\ {last.rows[i].account_id : i \in DOMAIN last.rows} =
         {a \in AccountIds : /\ accounts[a].company_id = last.company
                             /\ accounts[a].mapping_category_id = NULL}
    /\ Len(last.rows) = Cardinality({last.rows[i].account_id : i \in DOMAIN last.rows})
    /\ AllKept

\* One account of c is returned, another account of c is mapped and is not, and
\* an unmapped account of another company is not.
C10_Witness ==
  /\ last.op = "fn_get_unmapped_accounts"
  /\ Len(last.rows) = 1
  /\ \E a \in AccountIds :
       /\ accounts[a].company_id = last.company
       /\ accounts[a].mapping_category_id # NULL
  /\ \E b \in AccountIds :
       /\ accounts[b].company_id # last.company
       /\ accounts[b].mapping_category_id = NULL

---------------------------------------------------------------------------
(* Monthly aggregation                                                     *)
(* (supabase/migrations/20250101000004_monthly_aggregation_functions.sql): *)
(* fn_generate_monthly_pl and fn_generate_monthly_cash_flow over           *)
(* raw_transactions, accounts, categories, monthly_pl, monthly_cash_flow.  *)
(*                                                                         *)
(* Dates and timestamps are day numbers; NUMERIC(15,2) amounts are         *)
(* integers, in hundredths.  The table companies holds the rows Companies  *)
(* and no function of the migrations changes it.  gen_random_uuid() is     *)
(* modelled by the next unused row number of the table, as a string.       *)

\* The NULL of a DATE argument: no day number.
NullDate == 0 - 1

\* The validation without the check of period_start > period_end.
Validate_NoOrderCheck(p_company_id, p_period_start, p_period_end, p_source_run_id) ==
  IF p_company_id = NULL THEN "InvalidArgument"
  ELSE IF p_period_start = NullDate \/ p_period_end = NullDate THEN "InvalidArgument"
  ELSE IF p_source_run_id = NULL \/ p_source_run_id = "" THEN "InvalidArgument"
  ELSE "ok"

\* The validation of lines 28-43 and 138-153; each RAISE EXCEPTION aborts the call.
Validate(p_company_id, p_period_start, p_period_end, p_source_run_id) ==
  IF p_company_id = NULL THEN "InvalidArgument"
  ELSE IF p_period_start = NullDate \/ p_period_end = NullDate THEN "InvalidArgument"
  ELSE IF p_period_start > p_period_end THEN "InvalidArgument"
  ELSE IF p_source_run_id = NULL \/ p_source_run_id = "" THEN "InvalidArgument"
  ELSE "ok"

\* SUM(rt.amount) over the rows S, 0 when there is none (COALESCE).
RECURSIVE SumAmount(_)
SumAmount(S) ==
  IF S = {} THEN 0
  ELSE LET rt == CHOOSE x \in S : TRUE
       IN rt.amount + SumAmount(S \ {rt})

\* FROM raw_transactions rt WHERE rt.company_id = p_company_id
\*   AND rt.date >= p_period_start AND rt.date <= p_period_end
InPeriod(txns, p_company_id, p_period_start, p_period_end) ==
  {rt \in txns : /\ rt.company_id = p_company_id
                 /\ rt.date >= p_period_start
                 /\ rt.date <= p_period_end}

\* The joins as LEFT JOINs with the rows without a category counted as opex.
JoinCategory_UncategorizedAsOpex(cats, accts, S, ct) ==
  {rt \in S :
     \/ /\ rt.account_id \in DOMAIN accts
        /\ \E i \in DOMAIN cats :
             /\ cats[i].id = accts[rt.account_id].mapping_category_id
             /\ cats[i].canonical_type = ct
     \/ /\ ct = "opex"
        /\ \/ rt.account_id \notin DOMAIN accts
           \/ accts[rt.account_id].mapping_category_id = NULL}

\* JOIN accounts acc ON rt.account_id = acc.id
\* JOIN categories cat ON acc.mapping_category_id = cat.id
\* WHERE cat.canonical_type = ct
JoinCategory(cats, accts, S, ct) ==
  {rt \in S : /\ rt.account_id \in DOMAIN accts
              /\ \E i \in DOMAIN cats :
                   /\ cats[i].id = accts[rt.account_id].mapping_category_id
                   /\ cats[i].canonical_type = ct}

\* The join with the absolute value of every amount summed.
PLSum_Absolute(cats, accts, txns, p_company_id, p_period_start, p_period_end, ct) ==
  LET S == JoinCategory(cats, accts,
                        InPeriod(txns, p_company_id, p_period_start, p_period_end), ct)
  IN SumAmount({[rt EXCEPT !.amount = IF @ < 0 THEN 0 - @ ELSE @] : rt \in S})

\* One of the three SELECT COALESCE(SUM(rt.amount), 0) of lines 47-74.
PLSum(cats, accts, txns, p_company_id, p_period_start, p_period_end, ct) ==
  SumAmount(JoinCategory(cats, accts,
                         InPeriod(txns, p_company_id, p_period_start, p_period_end), ct))

\* jsonb_build_object('revenue', v_revenue, 'cogs', v_cogs, 'opex', v_opex)
PLTotals(cats, accts, txns, p_company_id, p_period_start, p_period_end) ==
  [revenue |-> PLSum(cats, accts, txns, p_company_id, p_period_start, p_period_end,
                     "revenue"),
   cogs |-> PLSum(cats, accts, txns, p_company_id, p_period_start, p_period_end, "cogs"),
   opex |-> PLSum(cats, accts, txns, p_company_id, p_period_start, p_period_end, "opex")]

\* The three IN lists of lines 163, 172 and 181.
OperatingTypes == {"Income", "Expense", "Other Income", "Other Expense",
                   "Cost of Goods Sold"}
InvestingTypes == {"Fixed Asset", "Other Asset"}
FinancingTypes == {"Long Term Liability", "Equity"}

\* JOIN accounts acc ON rt.account_id = acc.id WHERE acc.type IN types
JoinType(accts, S, types) ==
  {rt \in S : /\ rt.account_id \in DOMAIN accts
              /\ accts[rt.account_id].type \in types}

\* The sums taken by the canonical_type of the account's resolved category, not
\* by the account's type.
CashFlowSum_ByCategory(accts, txns, p_company_id, p_period_start, p_period_end, types) ==
  LET cts == IF types = OperatingTypes THEN {"revenue", "cogs", "opex"}
             ELSE IF types = InvestingTypes THEN {"asset"}
             ELSE {"liability", "equity"}
  IN SumAmount(UNION {JoinCategory(categories, accts,
                                   InPeriod(txns, p_company_id, p_period_start,
                                            p_period_end), ct) : ct \in cts})

\* One of the three SELECT COALESCE(SUM(rt.amount), 0) of lines 157-181.
CashFlowSum(accts, txns, p_company_id, p_period_start, p_period_end, types) ==
  SumAmount(JoinType(accts, InPeriod(txns, p_company_id, p_period_start, p_period_end),
                     types))

\* The sums with Bank counted as an operating type.
CashFlowTotals_BankOperating(accts, txns, p_company_id, p_period_start, p_period_end) ==
  [operating |-> CashFlowSum(accts, txns, p_company_id, p_period_start, p_period_end,
                             OperatingTypes \cup {"Bank"}),
   investing |-> CashFlowSum(accts, txns, p_company_id, p_period_start, p_period_end,
                             InvestingTypes),
   financing |-> CashFlowSum(accts, txns, p_company_id, p_period_start, p_period_end,
                             FinancingTypes)]

\* jsonb_build_object('operating', v_operating, 'investing', v_investing,
\*                    'financing', v_financing)
CashFlowTotals(accts, txns, p_company_id, p_period_start, p_period_end) ==
  [operating |-> CashFlowSum(accts, txns, p_company_id, p_period_start, p_period_end,
                             OperatingTypes),
   investing |-> CashFlowSum(accts, txns, p_company_id, p_period_start, p_period_end,
                             InvestingTypes),
   financing |-> CashFlowSum(accts, txns, p_company_id, p_period_start, p_period_end,
                             FinancingTypes)]

\* The rows of an aggregate table with the unique key (company_id, period_start).
RowsOfKey(table, company_id, period_start) ==
  {row \in table : row.company_id = company_id /\ row.period_start = period_start}

\* The upsert with ON CONFLICT (company_id): a row of the company, of whatever
\* period_start, is the row in conflict.
Upsert_ConflictOnCompany(table, p_company_id, p_period_start, p_period_end, v_totals, at, p_source_run_id) ==
  LET conflict == {row \in table : row.company_id = p_company_id}
  IN IF conflict # {}
       THEN LET old == CHOOSE row \in conflict : TRUE
                upd == [old EXCEPT !.period_end = p_period_end,
                                   !.totals_by_account_type = v_totals,
                                   !.row_version = old.row_version + 1,
                                   !.generated_at = at,
                                   !.source_run_id = p_source_run_id]
            IN [table |-> (table \ {old}) \cup {upd}, status |-> "ok", ret |-> old.id]
     ELSE IF p_company_id \notin Companies
       THEN [table |-> table, status |-> "ForeignKeyViolation", ret |-> NULL]
     ELSE LET v_row_id == ToString(Cardinality(table) + 1)
          IN [table |-> table \cup {[id |-> v_row_id,
                                     company_id |-> p_company_id,
                                     period_start |-> p_period_start,
                                     period_end |-> p_period_end,
                                     totals_by_account_type |-> v_totals,
                                     row_version |-> 1,
                                     generated_at |-> at,
                                     source_run_id |-> p_source_run_id]},
              status |-> "ok", ret |-> v_row_id]

\* The upsert with the new totals added to those of the row in conflict.
Upsert_AddTotals(table, p_company_id, p_period_start, p_period_end, v_totals, at, p_source_run_id) ==
  LET conflict == RowsOfKey(table, p_company_id, p_period_start)
  IN IF conflict # {}
       THEN LET old == CHOOSE row \in conflict : TRUE
                sum == [f \in DOMAIN v_totals |->
                          old.totals_by_account_type[f] + v_totals[f]]
                upd == [old EXCEPT !.period_end = p_period_end,
                                   !.totals_by_account_type = sum,
                                   !.row_version = old.row_version + 1,
                                   !.generated_at = at,
                                   !.source_run_id = p_source_run_id]
            IN [table |-> (table \ {old}) \cup {upd}, status |-> "ok", ret |-> old.id]
     ELSE IF p_company_id \notin Companies
       THEN [table |-> table, status |-> "ForeignKeyViolation", ret |-> NULL]
     ELSE LET v_row_id == ToString(Cardinality(table) + 1)
          IN [table |-> table \cup {[id |-> v_row_id,
                                     company_id |-> p_company_id,
                                     period_start |-> p_period_start,
                                     period_end |-> p_period_end,
                                     totals_by_account_type |-> v_totals,
                                     row_version |-> 1,
                                     generated_at |-> at,
                                     source_run_id |-> p_source_run_id]},
              status |-> "ok", ret |-> v_row_id]

\* A plain INSERT on a table without the unique key: a row for every call.
Upsert_InsertAlways(table, p_company_id, p_period_start, p_period_end, v_totals, at, p_source_run_id) ==
  IF p_company_id \notin Companies
    THEN [table |-> table, status |-> "ForeignKeyViolation", ret |-> NULL]
    ELSE LET v_row_id == ToString(Cardinality(table) + 1)
         IN [table |-> table \cup {[id |-> v_row_id,
                                    company_id |-> p_company_id,
                                    period_start |-> p_period_start,
                                    period_end |-> p_period_end,
                                    totals_by_account_type |-> v_totals,
                                    row_version |-> 1,
                                    generated_at |-> at,
                                    source_run_id |-> p_source_run_id]},
             status |-> "ok", ret |-> v_row_id]

\* The upsert with row_version = row_version - 1 in its DO UPDATE.
Upsert_VersionDown(table, p_company_id, p_period_start, p_period_end, v_totals, at, p_source_run_id) ==
  LET conflict == RowsOfKey(table, p_company_id, p_period_start)
  IN IF conflict # {}
       THEN LET old == CHOOSE row \in conflict : TRUE
                upd == [old EXCEPT !.period_end = p_period_end,
                                   !.totals_by_account_type = v_totals,
                                   !.row_version = old.row_version - 1,
                                   !.generated_at = at,
                                   !.source_run_id = p_source_run_id]
            IN [table |-> (table \ {old}) \cup {upd}, status |-> "ok", ret |-> old.id]
     ELSE IF p_company_id \notin Companies
       THEN [table |-> table, status |-> "ForeignKeyViolation", ret |-> NULL]
     ELSE LET v_row_id == ToString(Cardinality(table) + 1)
          IN [table |-> table \cup {[id |-> v_row_id,
                                     company_id |-> p_company_id,
                                     period_start |-> p_period_start,
                                     period_end |-> p_period_end,
                                     totals_by_account_type |-> v_totals,
                                     row_version |-> 1,
                                     generated_at |-> at,
                                     source_run_id |-> p_source_run_id]},
              status |-> "ok", ret |-> v_row_id]

\* INSERT ... ON CONFLICT (company_id, period_start) DO UPDATE ... RETURNING id,
\* lines 84-108 and 191-215.  company_id REFERENCES companies(id): the insert of
\* a row of a company that does not exist raises a foreign key violation.
Upsert(table, p_company_id, p_period_start, p_period_end, v_totals, at, p_source_run_id) ==
  LET conflict == RowsOfKey(table, p_company_id, p_period_start)
  IN IF conflict # {}
       THEN LET old == CHOOSE row \in conflict : TRUE
                upd == [old EXCEPT !.period_end = p_period_end,
                                   !.totals_by_account_type = v_totals,
                                   !.row_version = old.row_version + 1,
                                   !.generated_at = at,
                                   !.source_run_id = p_source_run_id]
            IN [table |-> (table \ {old}) \cup {upd}, status |-> "ok", ret |-> old.id]
     ELSE IF p_company_id \notin Companies
       THEN [table |-> table, status |-> "ForeignKeyViolation", ret |-> NULL]
     ELSE LET v_row_id == ToString(Cardinality(table) + 1)
          IN [table |-> table \cup {[id |-> v_row_id,
                                     company_id |-> p_company_id,
                                     period_start |-> p_period_start,
                                     period_end |-> p_period_end,
                                     totals_by_account_type |-> v_totals,
                                     row_version |-> 1,
                                     generated_at |-> at,
                                     source_run_id |-> p_source_run_id]},
              status |-> "ok", ret |-> v_row_id]

\* The statements of fn_generate_monthly_pl after each other, on the tables as
\* they are: validation, the three sums, the upsert.
GenerateMonthlyPL(cats, accts, txns, table, at, p_company_id, p_period_start, p_period_end, p_source_run_id) ==
  IF Validate(p_company_id, p_period_start, p_period_end, p_source_run_id) # "ok"
    THEN [table |-> table, status |-> "InvalidArgument", ret |-> NULL]
    ELSE Upsert(table, p_company_id, p_period_start, p_period_end,
                PLTotals(cats, accts, txns, p_company_id, p_period_start, p_period_end),
                at, p_source_run_id)

\* The statements of fn_generate_monthly_cash_flow after each other.
GenerateMonthlyCashFlow(accts, txns, table, at, p_company_id, p_period_start, p_period_end, p_source_run_id) ==
  IF Validate(p_company_id, p_period_start, p_period_end, p_source_run_id) # "ok"
    THEN [table |-> table, status |-> "InvalidArgument", ret |-> NULL]
    ELSE Upsert(table, p_company_id, p_period_start, p_period_end,
                CashFlowTotals(accts, txns, p_company_id, p_period_start, p_period_end),
                at, p_source_run_id)

\* Bounds of the aggregation runs.
MaxDate == 2        \* dates are 1..MaxDate
MaxNow == 2         \* the clock reads 1..MaxNow
MaxGenerates == 2   \* successful generate calls of one run

Dates == 1..MaxDate
RunIds == {"r1", "r2"}

\* row_version counts the successful generates of a key: their number over a table.
RECURSIVE SumVersions(_)
SumVersions(table) ==
  IF table = {} THEN 0
  ELSE LET row == CHOOSE x \in table : TRUE
       IN row.row_version + SumVersions(table \ {row})

Generated == SumVersions(monthly_pl) + SumVersions(monthly_cash_flow)

\* A run makes at most MaxGenerates successful generate calls; a call that fails
\* the validation or names a company that does not exist is always possible.
MayGenerate(p_company_id, p_period_start, p_period_end, p_source_run_id) ==
  \/ Generated < MaxGenerates
  \/ Validate(p_company_id, p_period_start, p_period_end, p_source_run_id) # "ok"
  \/ p_company_id \notin Companies

\* The successful generates counted for a key of a table.
Count(table, company_id, period_start) ==
  IF <<table, company_id, period_start>> \in DOMAIN generates
    THEN generates[<<table, company_id, period_start>>]
    ELSE 0

\* `generates` after a call on a key of a table ended with status.
Counted(table, company_id, period_start, status) ==
  IF status # "ok" THEN generates
  ELSE [k \in DOMAIN generates \cup {<<table, company_id, period_start>>} |->
          IF k = <<table, company_id, period_start>>
            THEN Count(table, company_id, period_start) + 1
            ELSE generates[k]]

\* A call of one of the two generators, as `last` keeps it; repeat tells that it
\* succeeded right after a successful call of the same generator with the same
\* arguments.
AggCall(op, p_company_id, p_period_start, p_period_end, p_source_run_id, status, ret) ==
  [op |-> op, company |-> p_company_id, period_start |-> p_period_start,
   period_end |-> p_period_end, run |-> p_source_run_id, status |-> status,
   ret |-> ret, at |-> now,
   repeat |-> /\ last.op = op /\ last.status = "ok" /\ status = "ok"
              /\ last.company = p_company_id
              /\ last.period_start = p_period_start
              /\ last.period_end = p_period_end
              /\ last.run = p_source_run_id]

fn_generate_monthly_pl(p_company_id, p_period_start, p_period_end, p_source_run_id) ==
  LET r == GenerateMonthlyPL(categories, accounts, raw_transactions, monthly_pl, now,
                             p_company_id, p_period_start, p_period_end,
                             p_source_run_id)
  IN /\ MayGenerate(p_company_id, p_period_start, p_period_end, p_source_run_id)
     /\ monthly_pl' = r.table
     /\ generates' = Counted("monthly_pl", p_company_id, p_period_start, r.status)
     /\ last' = AggCall("fn_generate_monthly_pl", p_company_id, p_period_start,
                        p_period_end, p_source_run_id, r.status, r.ret)
     /\ UNCHANGED <<categories, accounts, resolved, raw_transactions,
                    monthly_cash_flow, projections_12m, now, invocations>>

fn_generate_monthly_cash_flow(p_company_id, p_period_start, p_period_end, p_source_run_id) ==
  LET r == GenerateMonthlyCashFlow(accounts, raw_transactions, monthly_cash_flow, now,
                                   p_company_id, p_period_start, p_period_end,
                                   p_source_run_id)
  IN /\ MayGenerate(p_company_id, p_period_start, p_period_end, p_source_run_id)
     /\ monthly_cash_flow' = r.table
     /\ generates' = Counted("monthly_cash_flow", p_company_id, p_period_start,
                             r.status)
     /\ last' = AggCall("fn_generate_monthly_cash_flow", p_company_id, p_period_start,
                        p_period_end, p_source_run_id, r.status, r.ret)
     /\ UNCHANGED <<categories, accounts, resolved, raw_transactions, monthly_pl,
                    projections_12m, now, invocations>>

\* Time passes between two calls.
Tick ==
  /\ now < MaxNow
  /\ now' = now + 1
  /\ UNCHANGED <<categories, accounts, last, resolved, raw_transactions, monthly_pl,
                 monthly_cash_flow, projections_12m, invocations, generates>>

\* Rows of raw_transactions.  account_id may be NULL (the column is nullable), and
\* company_id need not be the company of the account.
Transaction(id, company_id, account_id, date, amount) ==
  [id |-> id, company_id |-> company_id, account_id |-> account_id, date |-> date,
   amount |-> amount]

LedgerEmpty == {}

LedgerSigns ==
  { Transaction("t1", "c1", "a1", 1, 100),
    Transaction("t2", "c1", "a2", 1, -30),
    Transaction("t3", "c1", "a3", 2, -20),
    Transaction("t4", "c1", NULL, 1, 7),
    Transaction("t5", "c2", "a1", 1, 50),
    Transaction("t6", "c1", "a4", 2, 5),
    Transaction("t7", "c1", "a1", 0, 1000),
    Transaction("t8", "c1", "a2", 3, -400) }

LedgerTwins ==
  { Transaction("t1", "c1", "a1", 1, 100),
    Transaction("t2", "c1", "a1", 1, 100),
    Transaction("t3", "c1", "a1", 2, -200),
    Transaction("t4", "c1", "a3", 2, 0),
    Transaction("t5", "c2", "a2", 2, -1) }

Ledgers == {LedgerEmpty, LedgerSigns, LedgerTwins}

AggAccount(company_id, type, mapping_category_id) ==
  [company_id |-> company_id, name |-> <<"a">>, type |-> type,
   mapping_category_id |-> mapping_category_id]

\* Accounts mapped as their types suggest (over CatalogSix).
AccountsCanon ==
  [a \in {"a1", "a2", "a3", "a4"} |->
     CASE a = "a1" -> AggAccount("c1", "Income", "k4")
       [] a = "a2" -> AggAccount("c1", "Cost of Goods Sold", "k2")
       [] a = "a3" -> AggAccount("c1", "Expense", "k6")
       [] a = "a4" -> AggAccount("c2", "Bank", "k1")]

\* Accounts overridden against their types, one unmapped.
AccountsCrossed ==
  [a \in {"a1", "a2", "a3", "a4"} |->
     CASE a = "a1" -> AggAccount("c1", "Fixed Asset", NULL)
       [] a = "a2" -> AggAccount("c1", "Equity", "k4")
       [] a = "a3" -> AggAccount("c1", "Long Term Liability", "k2")
       [] a = "a4" -> AggAccount("c2", "Other Income", "k6")]

\* Accounts not mapped to a P&L category.
AccountsUnmapped ==
  [a \in {"a1", "a2", "a3", "a4"} |->
     CASE a = "a1" -> AggAccount("c1", "Other Asset", NULL)
       [] a = "a2" -> AggAccount("c1", "Other Expense", NULL)
       [] a = "a3" -> AggAccount("c1", "Bank", "k5")
       [] a = "a4" -> AggAccount("c2", "Equity", "k3")]

AccountSets == {AccountsCanon, AccountsCrossed, AccountsUnmapped}

\* Arguments that pass the validation, and arguments that fail it, one for each
\* check and two that fail several.
GoodArgs ==
  {a \in {"c1"} \X Dates \X Dates \X RunIds : a[2] <= a[3]}

BadArgs ==
  { <<NULL, 1, 1, "r1">>, <<"c1", NullDate, 1, "r1">>, <<"c1", 1, NullDate, "r1">>,
    <<"c1", 2, 1, "r1">>, <<"c1", 1, 1, NULL>>, <<"c1", 1, 1, "">>,
    <<NULL, NullDate, NullDate, NULL>>, <<NULL, 2, 1, "">>,
    <<NoCompany, 1, 1, "r1">> }

\* Any ledger, any of the account sets, no aggregate yet.
InitAgg ==
  /\ categories = CatalogSix
  /\ accounts \in AccountSets
  /\ raw_transactions \in Ledgers
  /\ last = NoCall
  /\ resolved = <<>>
  /\ monthly_pl = {}
  /\ monthly_cash_flow = {}
  /\ projections_12m = {}
  /\ now = 1
  /\ invocations = <<>>
  /\ generates = <<>>

\* The signed ledger over the accounts mapped as their types suggest.
InitUpsert ==
  /\ InitAgg
  /\ accounts = AccountsCanon
  /\ raw_transactions = LedgerSigns

NextPL ==
  \E a \in GoodArgs \cup BadArgs : fn_generate_monthly_pl(a[1], a[2], a[3], a[4])

SpecPL == InitAgg /\ [][NextPL]_vars

NextCashFlow ==
  \E a \in GoodArgs \cup BadArgs : fn_generate_monthly_cash_flow(a[1], a[2], a[3], a[4])

SpecCashFlow == InitAgg /\ [][NextCashFlow]_vars

\* The key (c1, 1) with every period_end and run id, and one more key.
UpsertArgs ==
  {a \in GoodArgs : a[2] = 1} \cup {<<"c1", MaxDate, MaxDate, "r1">>}

NextUpsert ==
  \/ \E a \in UpsertArgs : fn_generate_monthly_pl(a[1], a[2], a[3], a[4])
  \/ \E a \in UpsertArgs : fn_generate_monthly_cash_flow(a[1], a[2], a[3], a[4])
  \/ fn_set_account_mapping("a1", "k2")
  \/ Tick

SpecUpsert == InitUpsert /\ [][NextUpsert]_vars

\* Periods of one day and the longest period, and the arguments that fail.
ValidateArgs ==
  {<<"c1", d, d, "r1">> : d \in Dates} \cup {<<"c1", 1, MaxDate, "r2">>} \cup BadArgs

NextValidate ==
  \/ \E a \in ValidateArgs : fn_generate_monthly_pl(a[1], a[2], a[3], a[4])
  \/ \E a \in ValidateArgs : fn_generate_monthly_cash_flow(a[1], a[2], a[3], a[4])

SpecValidate == InitUpsert /\ [][NextValidate]_vars

---------------------------------------------------------------------------
(* Concurrent calls of the generators.  Each call runs in its own          *)
(* transaction at READ COMMITTED: every statement sees the rows committed  *)
(* when it starts, so a call is a sequence of steps, one for each of the   *)
(* three SELECTs and one for the INSERT ... ON CONFLICT, which is atomic   *)
(* on the unique key and is followed at once by the commit.  NOW() is the  *)
(* time the transaction started.                                           *)

NProcs == 2   \* concurrent invocations

Procs == 1..NProcs

Idle == [pc |-> "idle"]

\* The arguments of the concurrent calls: two calls on the key (c1, 1), one on
\* another company, one on another period, one that fails the validation.
ConcArgs ==
  { <<"c1", 1, 1, "r1">>, <<"c1", 1, MaxDate, "r2">>, <<"c2", 1, 1, "r1">>,
    <<"c1", MaxDate, MaxDate, "r1">>, <<"c1", MaxDate, 1, "r1">> }

TableOf(op) == IF op = "fn_generate_monthly_pl" THEN "monthly_pl" ELSE "monthly_cash_flow"

\* The row_version of a key, 0 when it has no row.
VersionOf(table, company_id, period_start) ==
  LET rows == RowsOfKey(table, company_id, period_start)
  IN IF rows = {} THEN 0 ELSE (CHOOSE row \in rows : TRUE).row_version

\* BEGIN and the validation: a call starts, or fails at once.
Begin(p, op, a) ==
  /\ invocations[p].pc = "idle"
  /\ \A q \in Procs : q < p => invocations[q].pc # "idle"
  /\ invocations' =
       [invocations EXCEPT ![p] =
          [op |-> op, company |-> a[1], period_start |-> a[2], period_end |-> a[3],
           run |-> a[4], at |-> now, sums |-> <<>>,
           seen |-> VersionOf(IF op = "fn_generate_monthly_pl" THEN monthly_pl
                              ELSE monthly_cash_flow, a[1], a[2]),
           pc |-> IF Validate(a[1], a[2], a[3], a[4]) = "ok" THEN "select" ELSE "done",
           status |-> Validate(a[1], a[2], a[3], a[4]), ret |-> NULL]]
  /\ UNCHANGED <<categories, accounts, last, resolved, raw_transactions, monthly_pl,
                 monthly_cash_flow, projections_12m, now, generates>>

\* The next of the three SELECTs of the call, on the rows as they are now.
SelectSum(p) ==
  LET inv == invocations[p]
      n == Len(inv.sums) + 1
      v == IF inv.op = "fn_generate_monthly_pl"
             THEN PLSum(categories, accounts, raw_transactions, inv.company,
                        inv.period_start, inv.period_end,
                        <<"revenue", "cogs", "opex">>[n])
             ELSE CashFlowSum(accounts, raw_transactions, inv.company,
                              inv.period_start, inv.period_end,
                              <<OperatingTypes, InvestingTypes, FinancingTypes>>[n])
  IN /\ inv.pc = "select"
     /\ invocations' = [invocations EXCEPT ![p].sums = Append(inv.sums, v),
                                           ![p].pc = IF n = 3 THEN "upsert" ELSE "select"]
     /\ UNCHANGED <<categories, accounts, last, resolved, raw_transactions, monthly_pl,
                    monthly_cash_flow, projections_12m, now, generates>>

\* jsonb_build_object of the sums the call has read.
TotalsOf(inv) ==
  IF inv.op = "fn_generate_monthly_pl"
    THEN [revenue |-> inv.sums[1], cogs |-> inv.sums[2], opex |-> inv.sums[3]]
    ELSE [operating |-> inv.sums[1], investing |-> inv.sums[2], financing |-> inv.sums[3]]

\* A caller-side read-then-write: the row is written from the row_version the
\* call saw when it began.
UpsertOf_ReadThenWrite(table, inv) ==
  LET conflict == RowsOfKey(table, inv.company, inv.period_start)
  IN IF inv.seen = 0 \/ conflict = {}
       THEN Upsert_InsertAlways(table, inv.company, inv.period_start, inv.period_end,
                                TotalsOf(inv), inv.at, inv.run)
       ELSE LET old == CHOOSE row \in conflict : TRUE
                upd == [old EXCEPT !.period_end = inv.period_end,
                                   !.totals_by_account_type = TotalsOf(inv),
                                   !.row_version = inv.seen + 1,
                                   !.generated_at = inv.at,
                                   !.source_run_id = inv.run]
            IN [table |-> (table \ {old}) \cup {upd}, status |-> "ok", ret |-> old.id]

\* The INSERT ... ON CONFLICT of the call.
UpsertOf(table, inv) ==
  Upsert(table, inv.company, inv.period_start, inv.period_end, TotalsOf(inv), inv.at,
         inv.run)

\* The INSERT ... ON CONFLICT, RETURN and the commit.
UpsertRow(p) ==
  LET inv == invocations[p]
      r == UpsertOf(IF inv.op = "fn_generate_monthly_pl" THEN monthly_pl
                    ELSE monthly_cash_flow, inv)
  IN /\ inv.pc = "upsert"
     /\ IF inv.op = "fn_generate_monthly_pl"
          THEN monthly_pl' = r.table /\ UNCHANGED monthly_cash_flow
          ELSE monthly_cash_flow' = r.table /\ UNCHANGED monthly_pl
     /\ invocations' = [invocations EXCEPT ![p].pc = "done", ![p].status = r.status,
                                           ![p].ret = r.ret]
     /\ generates' = Counted(TableOf(inv.op), inv.company, inv.period_start, r.status)
     /\ UNCHANGED <<categories, accounts, last, resolved, raw_transactions,
                    projections_12m, now>>

\* The signed ledger, no aggregate yet, no call begun.
InitConc ==
  /\ categories = CatalogSix
  /\ accounts = AccountsCanon
  /\ raw_transactions = LedgerSigns
  /\ last = NoCall
  /\ resolved = <<>>
  /\ monthly_pl = {}
  /\ monthly_cash_flow = {}
  /\ projections_12m = {}
  /\ now = 1
  /\ invocations = [p \in Procs |-> Idle]
  /\ generates = <<>>

NextConc ==
  \/ \E p \in Procs, a \in ConcArgs :
       \E op \in {"fn_generate_monthly_pl", "fn_generate_monthly_cash_flow"} :
         Begin(p, op, a)
  \/ \E p \in Procs : SelectSum(p)
  \/ \E p \in Procs : UpsertRow(p)

SpecConc == InitConc /\ [][NextConc]_vars

\* Concurrent calls of fn_generate_monthly_pl on the one key (c1, 1), while an
\* override moves the account a1 from revenue to cogs.
NextOverride ==
  \/ \E p \in Procs : Begin(p, "fn_generate_monthly_pl", <<"c1", 1, 1, "r1">>)
  \/ \E p \in Procs : SelectSum(p)
  \/ \E p \in Procs : UpsertRow(p)
  \/ fn_set_account_mapping("a1", "k2")

SpecOverride == InitConc /\ [][NextOverride]_vars

---------------------------------------------------------------------------
(* Projection                                                              *)
(* (supabase/migrations/20250101000005_projection_function.sql):           *)
(* fn_generate_projection over companies, monthly_pl and projections_12m.  *)
(*                                                                         *)
(* plpgsql analyses each statement when the statement is first executed.   *)
(* The SELECT of lines 46-59 has aggregates (AVG, COUNT) and no GROUP BY,  *)
(* and its ORDER BY names the column period_start, which is neither        *)
(* grouped nor aggregated: PostgreSQL rejects such a statement (SQLSTATE   *)
(* 42803, "must appear in the GROUP BY clause or be used in an aggregate   *)
(* function") whatever the table holds.  The statements after it, lines    *)
(* 61-125, are never reached.                                              *)

\* SELECT AVG(...), AVG(...), COUNT(*) INTO v_avg_revenue, v_avg_costs,
\* v_historical_months FROM monthly_pl WHERE ... ORDER BY period_start DESC
\* LIMIT 6: the analysis of the statement raises the grouping error.
HistoryQuery(pl, p_company_id, current_date) ==
  [status |-> "GroupingError", v_avg_revenue |-> NULL, v_avg_costs |-> NULL,
   v_historical_months |-> NULL]

\* The function without the IF NOT EXISTS of lines 40-42.
GenerateProjection_NoExistsCheck(pl, proj, current_date, p_company_id) ==
  IF p_company_id = NULL
    THEN [projections |-> proj, status |-> "InvalidArgument", ret |-> NULL]
  ELSE [projections |-> proj,
        status |-> HistoryQuery(pl, p_company_id, current_date).status, ret |-> NULL]

\* fn_generate_projection: the check of the argument, the check of the company,
\* and the SELECT that fails; an exception leaves every table as it was.
GenerateProjection(pl, proj, current_date, p_company_id) ==
  IF p_company_id = NULL
    THEN [projections |-> proj, status |-> "InvalidArgument", ret |-> NULL]
  ELSE IF p_company_id \notin Companies
    THEN [projections |-> proj, status |-> "NotFound", ret |-> NULL]
  ELSE [projections |-> proj,
        status |-> HistoryQuery(pl, p_company_id, current_date).status, ret |-> NULL]

fn_generate_projection(p_company_id) ==
  LET r == GenerateProjection(monthly_pl, projections_12m, now, p_company_id)
  IN /\ projections_12m' = r.projections
     /\ last' = [op |-> "fn_generate_projection", company |-> p_company_id,
                 status |-> r.status, ret |-> r.ret, at |-> now]
     /\ UNCHANGED <<categories, accounts, resolved, raw_transactions, monthly_pl,
                    monthly_cash_flow, now, invocations, generates>>

\* A row of projections_12m.
Projection(id, company_id, snapshot_date, month, revenue_projection, cost_projection) ==
  [id |-> id, company_id |-> company_id, snapshot_date |-> snapshot_date,
   month |-> month, revenue_projection |-> revenue_projection,
   cost_projection |-> cost_projection]

\* The signed ledger, no aggregate yet, and either no projection or projections
\* written earlier.
InitProjection ==
  /\ categories = CatalogSix
  /\ accounts = AccountsCanon
  /\ raw_transactions = LedgerSigns
  /\ last = NoCall
  /\ resolved = <<>>
  /\ monthly_pl = {}
  /\ monthly_cash_flow = {}
  /\ projections_12m \in { {}, {Projection("1", "c1", 0, 1, 10200, 5100),
                                Projection("2", "c2", 0, 1, 0, 0)} }
  /\ now = 1
  /\ invocations = <<>>
  /\ generates = <<>>

NextProjection ==
  \/ \E p_company_id \in Companies \cup {NoCompany, NULL} :
       fn_generate_projection(p_company_id)
  \/ \E a \in UpsertArgs : fn_generate_monthly_pl(a[1], a[2], a[3], a[4])
  \/ Tick

SpecProjection == InitProjection /\ [][NextProjection]_vars

---------------------------------------------------------------------------
(* The stages together: aggregation, mapping and projection over one        *)
(* database.                                                                *)

\* Two calls for one key with different period_end, and a call that fails the
\* validation.
PipelineArgs ==
  {<<"c1", 1, 1, "r1">>, <<"c1", 1, MaxDate, "r2">>, <<"c1", MaxDate, 1, "r1">>}

\* The signed ledger over accounts mapped against their types, no aggregate
\* yet, projections written earlier.
InitPipeline ==
  /\ categories = CatalogSix
  /\ accounts = AccountsCrossed
  /\ raw_transactions = LedgerSigns
  /\ last = NoCall
  /\ resolved = <<>>
  /\ monthly_pl = {}
  /\ monthly_cash_flow = {}
  /\ projections_12m = {Projection("1", "c1", 0, 1, 10200, 5100),
                        Projection("2", "c2", 0, 1, 0, 0)}
  /\ now = 1
  /\ invocations = <<>>
  /\ generates = <<>>

NextPipeline ==
  \/ \E a \in PipelineArgs : fn_generate_monthly_pl(a[1], a[2], a[3], a[4])
  \/ \E a \in PipelineArgs : fn_generate_monthly_cash_flow(a[1], a[2], a[3], a[4])
  \/ \E p_account_id \in {"a1", NoAccount} : fn_map_account_to_category(p_account_id)
  \/ fn_map_company_accounts("c1")
  \/ \E p_category_id \in {"k2", NoCategory} :
       fn_set_account_mapping("a1", p_category_id)
  \/ \E p_company_id \in {"c1", NoCompany} : fn_generate_projection(p_company_id)

SpecPipeline == InitPipeline /\ [][NextPipeline]_vars

---------------------------------------------------------------------------
(* Claims about the monthly aggregation                                    *)

GeneratedPL == last.op = "fn_generate_monthly_pl" /\ last.status = "ok"
GeneratedCashFlow == last.op = "fn_generate_monthly_cash_flow" /\ last.status = "ok"

\* The row the last call returned.
ReturnedRow(table) == CHOOSE row \in table : row.id = last.ret

\* The canonical_type of the category with this id, NULL when there is none.
CanonicalTypeOfId(id) ==
  IF \E i \in DOMAIN categories : categories[i].id = id
    THEN categories[CHOOSE i \in DOMAIN categories : categories[i].id = id].canonical_type
    ELSE NULL

\* The canonical_type of the category account_id is currently resolved to, NULL
\* when there is no such account or it is resolved to no category.
ResolvedType(account_id) ==
  IF account_id \notin AccountIds THEN NULL
  ELSE IF accounts[account_id].mapping_category_id = NULL THEN NULL
  ELSE CanonicalTypeOfId(accounts[account_id].mapping_category_id)

\* What transaction rt adds to the total ct of company c over [s, e].
Contribution(rt, c, s, e, ct) ==
  IF rt.company_id = c /\ s <= rt.date /\ rt.date <= e
     /\ ResolvedType(rt.account_id) = ct
    THEN rt.amount
    ELSE 0

RECURSIVE SignedSum(_, _, _, _, _)
SignedSum(S, c, s, e, ct) ==
  IF S = {} THEN 0
  ELSE LET rt == CHOOSE x \in S : TRUE
       IN Contribution(rt, c, s, e, ct) + SignedSum(S \ {rt}, c, s, e, ct)

\* C11: after a successful generate_monthly_pl(c, start, end, run), each of
\* revenue, cogs and opex of the returned row is the sum, with their own signs, of
\* the amounts of the transactions of c dated in [start, end] whose account's
\* resolved category has that canonical_type, and 0 when there is none.
C11_PLTotalsAreSignedSums ==
  GeneratedPL =>
    /\ \E row \in monthly_pl : row.id = last.ret
    /\ \A ct \in {"revenue", "cogs", "opex"} :
         ReturnedRow(monthly_pl).totals_by_account_type[ct]
           = SignedSum(raw_transactions, last.company, last.period_start,
                       last.period_end, ct)

\* The amounts 100 (revenue), -30 (cogs), -20 (opex) give those three totals.
C11_Witness ==
  /\ GeneratedPL
  /\ ReturnedRow(monthly_pl).totals_by_account_type
       = [revenue |-> 100, cogs |-> 0 - 30, opex |-> 0 - 20]

\* The transactions without an account or on an account resolved to no category.
Uncategorized ==
  {rt \in raw_transactions :
     \/ rt.account_id = NULL
     \/ rt.account_id \in AccountIds /\ accounts[rt.account_id].mapping_category_id = NULL}

\* C12: the transactions without an account, or whose account has no resolved
\* category, add to none of revenue, cogs and opex (the totals are those of the
\* ledger without them), and a call with valid arguments for an existing company
\* succeeds whatever such transactions the ledger holds.
C12_UncategorizedExcluded ==
  /\ GeneratedPL =>
       ReturnedRow(monthly_pl).totals_by_account_type
         = PLTotals(categories, accounts, raw_transactions \ Uncategorized,
                    last.company, last.period_start, last.period_end)
  /\ ( /\ last.op = "fn_generate_monthly_pl"
       /\ Validate(last.company, last.period_start, last.period_end, last.run) = "ok"
       /\ last.company \in Companies )
     => last.status = "ok"

\* A successful call over a period that holds a transaction without account and
\* one on an unmapped account, with amounts that are not 0.
C12_Witness ==
  /\ GeneratedPL
  /\ \E rt \in Uncategorized :
       /\ rt.account_id = NULL /\ rt.amount # 0
       /\ rt.company_id = last.company
       /\ last.period_start <= rt.date /\ rt.date <= last.period_end
  /\ \E rt \in Uncategorized :
       /\ rt.account_id # NULL /\ rt.amount # 0
       /\ rt.company_id = last.company
       /\ last.period_start <= rt.date /\ rt.date <= last.period_end

\* The cash-flow total the claim gives to an account type, NULL for the types it
\* gives to none.
FlowOfType(type) ==
  IF type \in {"Income", "Expense", "Other Income", "Other Expense",
               "Cost of Goods Sold"} THEN "operating"
  ELSE IF type \in {"Fixed Asset", "Other Asset"} THEN "investing"
  ELSE IF type \in {"Long Term Liability", "Equity"} THEN "financing"
  ELSE NULL

\* What transaction rt adds to the cash-flow total `flow` of company c over [s, e].
FlowContribution(rt, c, s, e, flow) ==
  IF rt.company_id = c /\ s <= rt.date /\ rt.date <= e
     /\ rt.account_id \in AccountIds
     /\ FlowOfType(accounts[rt.account_id].type) = flow
    THEN rt.amount
    ELSE 0

RECURSIVE FlowSum(_, _, _, _, _)
FlowSum(S, c, s, e, flow) ==
  IF S = {} THEN 0
  ELSE LET rt == CHOOSE x \in S : TRUE
       IN FlowContribution(rt, c, s, e, flow) + FlowSum(S \ {rt}, c, s, e, flow)

\* C13: after a successful generate_monthly_cash_flow, each of operating,
\* investing and financing is the sum of the amounts of the in-period transactions
\* whose account's declared type belongs to that total; every type belongs to at
\* most one total, and a transaction on an account of another type, such as Bank,
\* or without an account, is in none.
C13_CashFlowByDeclaredType ==
  GeneratedCashFlow =>
    /\ \E row \in monthly_cash_flow : row.id = last.ret
    /\ \A flow \in {"operating", "investing", "financing"} :
         ReturnedRow(monthly_cash_flow).totals_by_account_type[flow]
           = FlowSum(raw_transactions, last.company, last.period_start,
                     last.period_end, flow)

\* A successful call over a period with a transaction on a Bank account and
\* transactions that count.
C13_Witness ==
  /\ GeneratedCashFlow
  /\ \E rt \in raw_transactions :
       /\ rt.company_id = last.company /\ rt.amount # 0
       /\ last.period_start <= rt.date /\ rt.date <= last.period_end
       /\ rt.account_id \in AccountIds
       /\ accounts[rt.account_id].type = "Bank"
  /\ \A flow \in {"operating", "investing", "financing"} :
       ReturnedRow(monthly_cash_flow).totals_by_account_type[flow] # 0

\* The accounts with the mapping of account a replaced by id.
Remapped(a, id) == [accounts EXCEPT ![a].mapping_category_id = id]

\* The accounts with every mapping replaced by id.
AllRemapped(id) == [a \in AccountIds |-> [accounts[a] EXCEPT !.mapping_category_id = id]]

\* C14: the totals generate_monthly_cash_flow persists are those it persists in
\* a state that differs only in account mappings: with the mapping of any one
\* account, or of all accounts, replaced by null or by any category; and every
\* cash-flow row of a run in which mappings are overridden between the calls holds
\* the totals of its period under the initial mappings.
C14_CashFlowIgnoresMappings ==
  /\ GeneratedCashFlow =>
       \A id \in CategoryIds \cup {NULL} :
         /\ \A a \in AccountIds :
              ReturnedRow(monthly_cash_flow).totals_by_account_type
                = CashFlowTotals(Remapped(a, id), raw_transactions, last.company,
                                 last.period_start, last.period_end)
         /\ ReturnedRow(monthly_cash_flow).totals_by_account_type
              = CashFlowTotals(AllRemapped(id), raw_transactions, last.company,
                               last.period_start, last.period_end)
  /\ \A row \in monthly_cash_flow :
       row.totals_by_account_type
         = CashFlowTotals(AccountsCanon, raw_transactions, row.company_id,
                          row.period_start, row.period_end)

\* A cash-flow row generated after the mapping of an account with in-period
\* transactions was overridden.
C14_Witness ==
  /\ GeneratedCashFlow
  /\ accounts["a1"].mapping_category_id # AccountsCanon["a1"].mapping_category_id
  /\ ReturnedRow(monthly_cash_flow).totals_by_account_type["operating"] # 0

\* After k successful generates of a key there is no row when k = 0, and
\* otherwise exactly one row, with row_version k.
OneRowPerKey(name, table) ==
  \A c \in Companies, s \in Dates :
    LET rows == RowsOfKey(table, c, s)
        k == Count(name, c, s)
    IN IF k = 0 THEN rows = {}
       ELSE Cardinality(rows) = 1 /\ \A row \in rows : row.row_version = k

\* The row of the key of the last call holds what the call passed and computed.
Overwritten(table, totals) ==
  \E row \in RowsOfKey(table, last.company, last.period_start) :
    /\ row.id = last.ret
    /\ row.period_end = last.period_end
    /\ row.totals_by_account_type = totals
    /\ row.generated_at = last.at
    /\ row.source_run_id = last.run

\* Every row stays, with its id and key, and its row_version stays or grows by 1.
SameRows(table, table_next) ==
  \A row \in table :
    \E r \in table_next :
      /\ r.id = row.id
      /\ r.company_id = row.company_id /\ r.period_start = row.period_start
      /\ r.row_version \in {row.row_version, row.row_version + 1}

\* C15: for each of the two tables, a key with k successful generates has no row
\* when k = 0 and otherwise exactly one row with row_version k (1 after the first
\* call, one more after each later call); a successful call leaves in the row of
\* its key the period_end, totals, generated_at and source_run_id of that call;
\* and a call never replaces a row by one with another id.
C15_VersionedUpsert ==
  /\ [](/\ OneRowPerKey("monthly_pl", monthly_pl)
        /\ OneRowPerKey("monthly_cash_flow", monthly_cash_flow)
        /\ GeneratedPL =>
             Overwritten(monthly_pl,
                         PLTotals(categories, accounts, raw_transactions, last.company,
                                  last.period_start, last.period_end))
        /\ GeneratedCashFlow =>
             Overwritten(monthly_cash_flow,
                         CashFlowTotals(accounts, raw_transactions, last.company,
                                        last.period_start, last.period_end)))
  /\ [][/\ SameRows(monthly_pl, monthly_pl')
        /\ SameRows(monthly_cash_flow, monthly_cash_flow')]_vars

\* A second generate of a key, later than the first, with another run id, while
\* the other table and another key hold rows too.
C15_Witness ==
  /\ GeneratedPL
  /\ ReturnedRow(monthly_pl).row_version = 2
  /\ last.at > 1
  /\ last.run = "r2"
  /\ last.period_end > last.period_start

\* A second generate of a cash-flow key.
C15_WitnessCashFlow ==
  /\ GeneratedCashFlow
  /\ ReturnedRow(monthly_cash_flow).row_version = 2
  /\ last.at > 1

\* C16: when a successful generate_monthly_pl is followed, with no mapping
\* change and no other call in between, by a successful generate_monthly_pl with
\* the same arguments, the second call persists the totals of the first, returns
\* the same id, leaves exactly one row for the key, and leaves row_version one
\* above its value after the first call.
C16_PLIdempotent ==
  [][ ( /\ GeneratedPL
        /\ last'.op = "fn_generate_monthly_pl" /\ last'.status = "ok"
        /\ last'.company = last.company /\ last'.period_start = last.period_start
        /\ last'.period_end = last.period_end /\ last'.run = last.run
        /\ monthly_pl' # monthly_pl )
      => /\ last'.ret = last.ret
         /\ Cardinality(RowsOfKey(monthly_pl', last.company, last.period_start)) = 1
         /\ \E old \in monthly_pl, new \in monthly_pl' :
              /\ old.id = last.ret /\ new.id = last.ret
              /\ new.totals_by_account_type = old.totals_by_account_type
              /\ new.row_version = old.row_version + 1 ]_vars

\* The second of two successive calls with the same arguments, with totals
\* that are not 0.
C16_Witness ==
  /\ GeneratedPL
  /\ last.repeat
  /\ ReturnedRow(monthly_pl).row_version = 2
  /\ ReturnedRow(monthly_pl).totals_by_account_type.revenue # 0

GeneratorCall == last.op \in {"fn_generate_monthly_pl", "fn_generate_monthly_cash_flow"}

\* The arguments of the last call that the claim lists as invalid.
InvalidArguments ==
  \/ last.company = NULL
  \/ last.period_start = NullDate
  \/ last.period_end = NullDate
  \/ last.period_start # NullDate /\ last.period_end # NullDate
     /\ last.period_start > last.period_end
  \/ last.run \in {NULL, ""}

\* C17: a call of either generator without company id, without a period bound,
\* with period_start > period_end, or without run id or with an empty one, fails
\* with InvalidArgument; a failing call creates no row and changes no row of the
\* two tables; a call with period_start = period_end and otherwise valid arguments
\* for an existing company succeeds.
C17_InvalidArguments ==
  /\ [](GeneratorCall =>
          /\ InvalidArguments => last.status = "InvalidArgument"
          /\ ( /\ ~InvalidArguments
               /\ last.period_start = last.period_end
               /\ last.company \in Companies ) => last.status = "ok")
  /\ [][last'.status = "InvalidArgument" =>
          /\ monthly_pl' = monthly_pl
          /\ monthly_cash_flow' = monthly_cash_flow]_vars

\* A call with period_start > period_end, on a key that has a row, has failed.
C17_Witness ==
  /\ GeneratorCall
  /\ last.status = "InvalidArgument"
  /\ last.company # NULL /\ last.run = "r1"
  /\ last.period_end # NullDate /\ last.period_start > last.period_end
  /\ RowsOfKey(monthly_pl, last.company, last.period_start) # {}
  /\ RowsOfKey(monthly_cash_flow, last.company, last.period_start) # {}

\* The invocations that have ended successfully on a key of a table.
Done(name, c, s) ==
  {p \in Procs : /\ invocations[p].pc = "done"
                 /\ invocations[p].status = "ok"
                 /\ TableOf(invocations[p].op) = name
                 /\ invocations[p].company = c
                 /\ invocations[p].period_start = s}

\* Invocation p does its upsert in this step.
Upserts(p) == invocations[p].pc = "upsert" /\ invocations'[p].pc = "done"

\* A key of a table holds no row when no invocation has ended on it, and
\* otherwise one row whose row_version is the number of those invocations.
NoLostIncrement(name, table) ==
  \A c \in Companies, s \in Dates :
    LET rows == RowsOfKey(table, c, s)
        n == Cardinality(Done(name, c, s))
    IN IF n = 0 THEN rows = {}
       ELSE Cardinality(rows) = 1 /\ \A row \in rows : row.row_version = n

\* C18: however the statements of the invocations of generate_monthly_pl and
\* generate_monthly_cash_flow interleave, every invocation with valid arguments
\* succeeds, every upsert raises the row_version of its key by exactly 1 (from 0
\* for a key without row), and a key on which N invocations have ended holds
\* exactly one row, with row_version N.
C18_ConcurrentUpserts ==
  /\ [](/\ NoLostIncrement("monthly_pl", monthly_pl)
        /\ NoLostIncrement("monthly_cash_flow", monthly_cash_flow)
        /\ \A p \in Procs :
             ( /\ invocations[p].pc = "done"
               /\ Validate(invocations[p].company, invocations[p].period_start,
                           invocations[p].period_end, invocations[p].run) = "ok" )
             => invocations[p].status = "ok")
  /\ [][\A p \in Procs :
          Upserts(p) =>
            IF invocations[p].op = "fn_generate_monthly_pl"
              THEN VersionOf(monthly_pl', invocations[p].company,
                             invocations[p].period_start)
                     = VersionOf(monthly_pl, invocations[p].company,
                                 invocations[p].period_start) + 1
              ELSE VersionOf(monthly_cash_flow', invocations[p].company,
                             invocations[p].period_start)
                     = VersionOf(monthly_cash_flow, invocations[p].company,
                                 invocations[p].period_start) + 1]_vars

\* All invocations have ended on the key (c1, 1) of monthly_pl, each having
\* begun before any of them wrote.
C18_Witness ==
  /\ \A p \in Procs :
       /\ invocations[p].pc = "done" /\ invocations[p].status = "ok"
       /\ invocations[p].op = "fn_generate_monthly_pl"
       /\ invocations[p].company = "c1" /\ invocations[p].period_start = 1
       /\ invocations[p].seen = 0
  /\ VersionOf(monthly_pl, "c1", 1) = NProcs

\* The rows of a table before and after a step are the same, but for the row of
\* the key of an invocation that does its upsert on that table in the step.
OnlyOwnKey(name, table, table_next) ==
  \A row \in table \cup table_next :
    \/ row \in table /\ row \in table_next
    \/ \E p \in Procs :
         /\ Upserts(p)
         /\ TableOf(invocations[p].op) = name
         /\ row.company_id = invocations[p].company
         /\ row.period_start = invocations[p].period_start

\* C19: every step of an invocation of one of the two generators, alone or
\* interleaved with others, leaves accounts, transactions and categories
\* unchanged and changes no row of the two tables but the row, in the table of
\* its generator, of its own key (company, period_start).
C19_OnlyOwnKey ==
  [][/\ accounts' = accounts
     /\ raw_transactions' = raw_transactions
     /\ categories' = categories
     /\ OnlyOwnKey("monthly_pl", monthly_pl, monthly_pl')
     /\ OnlyOwnKey("monthly_cash_flow", monthly_cash_flow, monthly_cash_flow')]_vars

\* Invocations that overlapped have ended, two of them on two keys of one
\* company in monthly_pl.
C19_Witness ==
  /\ VersionOf(monthly_pl, "c1", 1) = 1
  /\ VersionOf(monthly_pl, "c1", MaxDate) = 1
  /\ \A p \in Procs : invocations[p].pc = "done" /\ invocations[p].seen = 0

---------------------------------------------------------------------------
(* Claims about the projection                                             *)

ProjectionCall == last.op = "fn_generate_projection"

\* C20: generate_projection with the id of a company that does not exist fails
\* with NotFound, and a call that fails with NotFound creates no projection row
\* and changes none.
C20_MissingCompanyNotFound ==
  /\ []((ProjectionCall /\ last.company # NULL /\ last.company \notin Companies)
          => last.status = "NotFound")
  /\ [][last'.status = "NotFound" => projections_12m' = projections_12m]_vars

\* The call has failed for a company that does not exist, with projections and
\* P&L aggregates in the tables.
C20_Witness ==
  /\ ProjectionCall
  /\ last.company = NoCompany
  /\ last.status = "NotFound"
  /\ projections_12m # {}
  /\ monthly_pl # {}

\* The calendar of the claims: dates are day numbers and a month has two days
\* (0-1, 2-3, ...), so that a month starts at every even day.
MonthStart(d) == d - (d % 2)

\* The first day of the month m months after (before, for m < 0) the month of d.
AddMonths(d, m) == MonthStart(d) + 2 * m

\* The P&L aggregates of a company in the trailing 6-month window strictly
\* before the month of d.
WindowBeforeMonth(pl, company_id, d) ==
  {r \in pl : /\ r.company_id = company_id
              /\ r.period_start >= AddMonths(d, 0 - 6)
              /\ r.period_start < MonthStart(d)}

\* The rows of a snapshot of a company.
SnapshotRows(proj, company_id, snapshot_date) ==
  {r \in proj : r.company_id = company_id /\ r.snapshot_date = snapshot_date}

\* A call of fn_generate_projection for a company that exists has just ended.
ProjectionOfCompany == ProjectionCall /\ last.company \in Companies

\* C21: generate_projection for an existing company with no P&L aggregate (none
\* at all, hence none in the historical window) returns 0 without raising an
\* error, and the call creates or changes no projection row, rows of earlier
\* snapshots included.
C21_NoHistoryReturnsZero ==
  /\ []((ProjectionOfCompany
           /\ {r \in monthly_pl : r.company_id = last.company} = {})
          => (last.status = "ok" /\ last.ret = 0))
  /\ [][(ProjectionOfCompany'
           /\ {r \in monthly_pl : r.company_id = last'.company} = {})
          => projections_12m' = projections_12m]_vars

\* C22: generate_projection returns 0 or 12; with at least one aggregate in the
\* historical window it returns 12 and the snapshot holds exactly 12 rows, whose
\* months are the first days of the 12 months that follow the month of the
\* snapshot.
C22_TwelveConsecutiveMonths ==
  ProjectionOfCompany =>
    /\ last.status = "ok"
    /\ last.ret \in {0, 12}
    /\ WindowBeforeMonth(monthly_pl, last.company, last.at) # {} =>
         LET rows == SnapshotRows(projections_12m, last.company, last.at)
         IN /\ last.ret = 12
            /\ Cardinality(rows) = 12
            /\ {r.month : r \in rows} = {AddMonths(last.at, m) : m \in 1..12}
            /\ \A r \in rows : r.month > last.at

\* What a P&L aggregate adds to a base: its revenue, or its cogs plus its opex.
BaseValue(r, base) ==
  IF base = "revenue" THEN r.totals_by_account_type.revenue
  ELSE r.totals_by_account_type.cogs + r.totals_by_account_type.opex

RECURSIVE BaseSum(_, _)
BaseSum(S, base) ==
  IF S = {} THEN 0
  ELSE LET r == CHOOSE x \in S : TRUE
       IN BaseValue(r, base) + BaseSum(S \ {r}, base)

\* AVG over a set of aggregates, kept as the exact fraction sum / over; the
\* average of no row is NULL.
Average(S, base) ==
  IF S = {} THEN NULL ELSE [sum |-> BaseSum(S, base), over |-> Cardinality(S)]

\* The 6 rows with the latest period_start (all the rows when there are fewer).
LatestSix(S) ==
  {r \in S : Cardinality({q \in S : q.period_start > r.period_start}) < 6}

\* C23: the base averages are built only from the P&L aggregates whose
\* period_start lies in the trailing 6-month window strictly before the current
\* month: historical_months counts no row outside that window, is 0 when the
\* window is empty, and the averages are those of the rows of the window (here
\* for a window of at most 6 rows).
C23_WindowBeforeCurrentMonth ==
  ProjectionOfCompany =>
    LET h == HistoryQuery(monthly_pl, last.company, last.at)
        W == WindowBeforeMonth(monthly_pl, last.company, last.at)
    IN /\ h.status = "ok"
       /\ h.v_historical_months <= Cardinality(W)
       /\ Cardinality(W) <= 6 =>
            /\ h.v_historical_months = Cardinality(W)
            /\ h.v_avg_revenue = Average(W, "revenue")
            /\ h.v_avg_costs = Average(W, "costs")

\* C24: at most 6 aggregates are used: historical_months is at most 6 and the
\* averages are taken over the 6 rows of the window with the latest
\* period_start.
C24_AtMostSixLatest ==
  ProjectionOfCompany =>
    LET h == HistoryQuery(monthly_pl, last.company, last.at)
        L == LatestSix(WindowBeforeMonth(monthly_pl, last.company, last.at))
    IN /\ h.status = "ok"
       /\ h.v_historical_months <= 6
       /\ h.v_historical_months = Cardinality(L)
       /\ h.v_avg_revenue = Average(L, "revenue")
       /\ h.v_avg_costs = Average(L, "costs")

RECURSIVE Pow(_, _)
Pow(b, m) == IF m = 0 THEN 1 ELSE b * Pow(b, m - 1)

\* a / b rounded to the nearest integer, halves away from zero (b > 0).
RoundDiv(a, b) ==
  IF a >= 0 THEN (2 * a + b) \div (2 * b) ELSE 0 - ((2 * (0 - a) + b) \div (2 * b))

\* round((sum / over) x 1.02^m, 2) in hundredths, from the unrounded average.
Compound(sum, over, m) == RoundDiv(sum * Pow(102, m), over * Pow(100, m - 1))

\* C25: the row of offset m holds round(avg_revenue x 1.02^m, 2) and
\* round(avg_costs x 1.02^m, 2), both compounded from the unrounded base
\* averages (stated for the offsets 1..3, whose products the integers of the
\* model hold); averages of 1000 and 600 give 1061.21 and 636.72 at offset 3.
C25_CompoundedFromBase ==
  /\ Compound(1000, 1, 3) = 106121
  /\ Compound(600, 1, 3) = 63672
  /\ (ProjectionOfCompany
        /\ WindowBeforeMonth(monthly_pl, last.company, last.at) # {}) =>
       LET L == LatestSix(WindowBeforeMonth(monthly_pl, last.company, last.at))
           rows == SnapshotRows(projections_12m, last.company, last.at)
       IN /\ last.status = "ok"
          /\ \A m \in 1..3 : \E r \in rows :
               /\ r.month = AddMonths(last.at, m)
               /\ r.revenue_projection
                    = Compound(BaseSum(L, "revenue"), Cardinality(L), m)
               /\ r.cost_projection
                    = Compound(BaseSum(L, "costs"), Cardinality(L), m)

\* The step is a second run of generate_projection for the same company that
\* exists, on the same snapshot date.
Rerun ==
  /\ ProjectionOfCompany
  /\ last'.op = "fn_generate_projection"
  /\ last'.company = last.company
  /\ last'.at = last.at

\* C26: a second run for the same company on the same snapshot date ends
\* normally and leaves exactly 12 rows for (company, snapshot_date), one per
\* target month, when there is history (none otherwise); the rows of other
\* companies and of other snapshot dates are left unchanged.
C26_RerunKeepsTwelveRows ==
  [][Rerun =>
       LET rows == SnapshotRows(projections_12m', last'.company, last'.at)
       IN /\ last'.status = "ok"
          /\ Cardinality(rows) = last'.ret
          /\ last'.ret \in {0, 12}
          /\ Cardinality({r.month : r \in rows}) = Cardinality(rows)
          /\ projections_12m' \ rows
               = projections_12m \ SnapshotRows(projections_12m, last.company, last.at)]_vars

---------------------------------------------------------------------------
(* Claims about the stages together                                        *)

\* Every row of the table stays in it, with its id and its key, and with a
\* row_version that is not smaller.
RowsKept(table, table_next) ==
  \A row \in table :
    \E r \in table_next :
      /\ r.id = row.id
      /\ r.company_id = row.company_id /\ r.period_start = row.period_start
      /\ r.row_version >= row.row_version

\* C27: in every state reached by generate_monthly_pl, generate_monthly_cash_flow,
\* mapping and projection calls, every P&L and cash-flow row has
\* period_start <= period_end and row_version >= 1; and no step deletes a row or
\* lowers the row_version of a key.
C27_AggregateRowInvariants ==
  /\ [](\A row \in monthly_pl \cup monthly_cash_flow :
          row.period_start <= row.period_end /\ row.row_version >= 1)
  /\ [][/\ RowsKept(monthly_pl, monthly_pl')
        /\ RowsKept(monthly_cash_flow, monthly_cash_flow')]_vars

\* A P&L row generated twice, the second time up to the last date, then an
\* override of a mapping and a projection call.
C27_Witness ==
  /\ \E row \in RowsOfKey(monthly_pl, "c1", 1) :
       row.row_version = 2 /\ row.period_end = MaxDate
  /\ accounts["a1"].mapping_category_id = "k2"
  /\ ProjectionOfCompany

MappingOps ==
  {"fn_map_account_to_category", "fn_map_company_accounts", "fn_set_account_mapping"}

\* The P&L row is as it was, or the step is a successful generate_monthly_pl for
\* its key.
KeptUntilRegenerated(row) ==
  \/ row \in monthly_pl'
  \/ /\ last'.op = "fn_generate_monthly_pl" /\ last'.status = "ok"
     /\ last'.company = row.company_id /\ last'.period_start = row.period_start

\* C30: a call of resolve_account_category, map_company_accounts or
\* set_account_mapping leaves every P&L row, cash-flow row and projection row
\* unchanged; and a P&L row keeps all its fields, totals included, through
\* every step that is not a successful generate_monthly_pl for its key.
C30_MappingLeavesDerivedData ==
  [][/\ last'.op \in MappingOps =>
          /\ monthly_pl' = monthly_pl
          /\ monthly_cash_flow' = monthly_cash_flow
          /\ projections_12m' = projections_12m
     /\ \A row \in monthly_pl : KeptUntilRegenerated(row)]_vars

\* An override has just replaced the mapping that a resolution had set, and the
\* P&L row of (c1, 1) holds totals that the present mappings would not give;
\* there are a cash-flow row and projection rows.
C30_Witness ==
  /\ last.op = "fn_set_account_mapping" /\ last.status = "ok"
  /\ last.pre["a1"] = "k4"
  /\ accounts["a1"].mapping_category_id = "k2"
  /\ \E row \in RowsOfKey(monthly_pl, "c1", 1) :
       row.totals_by_account_type
         # PLTotals(categories, accounts, raw_transactions, "c1", 1, row.period_end)
  /\ monthly_cash_flow # {}
  /\ projections_12m # {}

\* C28: in every state reached by calls of resolve_account_category,
\* map_company_accounts and set_account_mapping (and of the read-only
\* get_unmapped_accounts), successful or failing, over an unchanged catalog,
\* the mapping_category_id of each account is NULL or the id of a category of
\* the catalog; and a step that changes a mapping is a successful call of one
\* of the three operations.
C28_MappingReferentialIntegrity ==
  /\ [](\A a \in AccountIds :
          accounts[a].mapping_category_id \in CategoryIds \cup {NULL})
  /\ [][/\ categories' = categories
        /\ accounts' # accounts => (last'.op \in MappingOps /\ last'.status = "ok")]_vars

\* An override with a category that does not exist has just failed; one account
\* is mapped to a category of the catalog, another is not mapped.
C28_Witness ==
  /\ last.op = "fn_set_account_mapping"
  /\ last.category = NoCategory
  /\ last.status = "CategoryNotFound"
  /\ \E a \in AccountIds : accounts[a].mapping_category_id \in CategoryIds
  /\ \E a \in AccountIds : accounts[a].mapping_category_id = NULL

\* The P&L totals of the key (c1, 1) over the transactions and mappings as they
\* are.
FreshTotals == PLTotals(categories, accounts, raw_transactions, "c1", 1, 1)

\* C29: when invocations of generate_monthly_pl for one key interleave with each
\* other and with a mapping change, a write that raises the row_version never
\* replaces totals computed from the present transactions and mappings by
\* totals computed from an older state; and once all invocations have finished,
\* the persisted totals are the sums read by the invocation that started last.
C29_VersionOrderIsFreshness ==
  /\ []((\A p \in Procs : invocations[p].pc = "done") =>
          \A row \in RowsOfKey(monthly_pl, "c1", 1) :
            row.totals_by_account_type = TotalsOf(invocations[NProcs]))
  /\ [][\A row \in RowsOfKey(monthly_pl, "c1", 1), r \in RowsOfKey(monthly_pl', "c1", 1) :
          (r.row_version > row.row_version
             /\ row.totals_by_account_type = FreshTotals)
            => r.totals_by_account_type = FreshTotals']_vars

=============================================================================
